---------------------------- MODULE Spec2Model ----------------------------
(***************************************************************************)
(* A model of the colour-palette generator: the palette store kept by the  *)
(* usePaletteGenerator hook (src/src/hooks/usePaletteGenerator.ts) and the *)
(* colour engine of src/src/utils/colorUtils.ts.                           *)
(*                                                                         *)
(* Colours.  A hex string is a record [form, rgb]: form "hex" is a         *)
(* well-formed #rrggbb string, "bare" six hex digits without the leading   *)
(* '#' (chroma-js resolves them all the same), "junk" a string chroma-js   *)
(* cannot parse (its constructor throws).  rgb is the colour it denotes.   *)
(*                                                                         *)
(* Numbers.  The code computes in IEEE doubles; the model computes the     *)
(* same formulas in fixed point, every intermediate value inside 32 bits:  *)
(*   channel            0..255                                             *)
(*   hue                hundredths of a degree, 0..35999; -1 is NaN        *)
(*   saturation, light  1/10000                                            *)
(*   linear sRGB, luminance   1/100000                                     *)
(*   contrast ratio     1/1000 (3000 is 3.0:1)                             *)
(*   L*, a*, b*, chroma 1/100                                              *)
(* The three tables hold the sRGB transfer curve, its inverse (as          *)
(* rounding boundaries) and the sine, which have no closed integer form.   *)
(***************************************************************************)
EXTENDS Integers, Sequences, FiniteSets, TLC

\* sRGB channel c (index c+1) -> linear light, 1/100000
LinTable ==
  << 0, 30, 61, 91, 121, 152, 182, 212, 243, 273, 304, 335, 368, 402, 439, 478,
     518, 561, 605, 651, 700, 750, 802, 857, 913, 972, 1033, 1096, 1161, 1229, 1298, 1370,
     1444, 1521, 1600, 1681, 1764, 1850, 1938, 2029, 2122, 2217, 2315, 2416, 2519, 2624, 2732, 2843,
     2956, 3071, 3190, 3310, 3434, 3560, 3689, 3820, 3955, 4092, 4231, 4374, 4519, 4667, 4817, 4971,
     5127, 5286, 5448, 5613, 5781, 5951, 6125, 6301, 6480, 6663, 6848, 7036, 7227, 7421, 7619, 7819,
     8022, 8228, 8438, 8650, 8866, 9084, 9306, 9531, 9759, 9990, 10224, 10462, 10702, 10946, 11193, 11444,
     11697, 11954, 12214, 12477, 12744, 13014, 13287, 13563, 13843, 14126, 14413, 14703, 14996, 15293, 15593, 15896,
     16203, 16513, 16827, 17144, 17465, 17789, 18116, 18447, 18782, 19120, 19462, 19807, 20156, 20508, 20864, 21223,
     21586, 21953, 22323, 22697, 23074, 23455, 23840, 24228, 24620, 25016, 25415, 25818, 26225, 26636, 27050, 27468,
     27889, 28315, 28744, 29177, 29614, 30054, 30499, 30947, 31399, 31855, 32314, 32778, 33245, 33716, 34191, 34670,
     35153, 35640, 36131, 36625, 37124, 37626, 38133, 38643, 39157, 39676, 40198, 40724, 41254, 41789, 42327, 42869,
     43415, 43966, 44520, 45079, 45641, 46208, 46778, 47353, 47932, 48515, 49102, 49693, 50289, 50888, 51492, 52100,
     52712, 53328, 53948, 54572, 55201, 55834, 56471, 57112, 57758, 58408, 59062, 59720, 60383, 61050, 61721, 62396,
     63076, 63760, 64448, 65141, 65837, 66539, 67244, 67954, 68669, 69387, 70110, 70838, 71569, 72306, 73046, 73791,
     74540, 75294, 76052, 76815, 77582, 78354, 79130, 79910, 80695, 81485, 82279, 83077, 83880, 84687, 85499, 86316,
     87137, 87962, 88792, 89627, 90466, 91310, 92158, 93011, 93869, 94731, 95597, 96469, 97345, 98225, 99110, 100000 >>

\* the smallest linear value (1/100000) that rounds to channel c (index c+1)
RoundBoundary ==
  << 0, 16, 46, 76, 107, 137, 167, 198, 228, 258, 289, 319, 351, 385, 421, 459,
     498, 540, 583, 628, 676, 725, 776, 830, 885, 943, 1003, 1065, 1129, 1195, 1264, 1334,
     1408, 1483, 1560, 1640, 1723, 1807, 1894, 1984, 2076, 2170, 2267, 2366, 2467, 2572, 2678, 2788,
     2899, 3014, 3131, 3250, 3372, 3497, 3625, 3755, 3888, 4023, 4161, 4302, 4446, 4593, 4742, 4894,
     5049, 5207, 5367, 5531, 5697, 5866, 6038, 6213, 6391, 6572, 6755, 6942, 7132, 7324, 7520, 7719,
     7920, 8125, 8333, 8544, 8758, 8975, 9195, 9418, 9645, 9874, 10107, 10343, 10582, 10824, 11070, 11318,
     11570, 11826, 12084, 12346, 12611, 12879, 13150, 13425, 13703, 13985, 14270, 14558, 14849, 15144, 15443, 15744,
     16050, 16358, 16670, 16986, 17304, 17627, 17953, 18282, 18615, 18951, 19291, 19634, 19981, 20332, 20686, 21043,
     21405, 21769, 22138, 22510, 22885, 23265, 23647, 24034, 24424, 24818, 25216, 25617, 26022, 26430, 26843, 27259,
     27679, 28102, 28530, 28961, 29395, 29834, 30277, 30723, 31173, 31627, 32085, 32546, 33011, 33481, 33954, 34431,
     34912, 35397, 35885, 36378, 36875, 37375, 37879, 38388, 38900, 39416, 39937, 40461, 40989, 41521, 42058, 42598,
     43142, 43691, 44243, 44799, 45360, 45924, 46493, 47066, 47643, 48223, 48809, 49398, 49991, 50588, 51190, 51796,
     52406, 53020, 53638, 54260, 54887, 55518, 56153, 56792, 57435, 58083, 58735, 59391, 60051, 60716, 61385, 62058,
     62736, 63418, 64104, 64794, 65489, 66188, 66891, 67599, 68311, 69028, 69749, 70474, 71203, 71937, 72676, 73419,
     74166, 74917, 75673, 76434, 77199, 77968, 78742, 79520, 80303, 81090, 81882, 82678, 83478, 84284, 85093, 85907,
     86726, 87549, 88377, 89210, 90046, 90888, 91734, 92585, 93440, 94300, 95164, 96033, 96906, 97785, 98668, 99555 >>

\* sin of d degrees (index d+1), 1/10000
SinTable ==
  << 0, 175, 349, 523, 698, 872, 1045, 1219, 1392, 1564, 1736, 1908, 2079, 2250, 2419, 2588,
     2756, 2924, 3090, 3256, 3420, 3584, 3746, 3907, 4067, 4226, 4384, 4540, 4695, 4848, 5000, 5150,
     5299, 5446, 5592, 5736, 5878, 6018, 6157, 6293, 6428, 6561, 6691, 6820, 6947, 7071, 7193, 7314,
     7431, 7547, 7660, 7771, 7880, 7986, 8090, 8192, 8290, 8387, 8480, 8572, 8660, 8746, 8829, 8910,
     8988, 9063, 9135, 9205, 9272, 9336, 9397, 9455, 9511, 9563, 9613, 9659, 9703, 9744, 9781, 9816,
     9848, 9877, 9903, 9925, 9945, 9962, 9976, 9986, 9994, 9998, 10000 >>

-----------------------------------------------------------------------------
(* Arithmetic helpers *)

Min(a, b) == IF a < b THEN a ELSE b
Max(a, b) == IF a > b THEN a ELSE b
Abs(a) == IF a < 0 THEN 0 - a ELSE a
Max3(c) == Max(c[1], Max(c[2], c[3]))
Min3(c) == Min(c[1], Min(c[2], c[3]))

\* a / b rounded to the nearest integer (b > 0), as Math.round does
RDiv(a, b) == (a + (b \div 2)) \div b

\* JavaScript's  x || d  on a number: d when x is 0 or NaN
OrElse(x, d) == IF x <= 0 THEN d ELSE x

-----------------------------------------------------------------------------
(* chroma-js: HSL *)

WrapHue(h) == (IF h < 0 THEN h + 36000 ELSE h) % 36000

\* chroma(c).hsl(): << hue, saturation, lightness >>, the hue of a gray is NaN
chromaHsl(c) ==
  LET mx == Max3(c)
      mn == Min3(c)
  IN  IF mx = mn THEN << -1, 0, RDiv((mx + mn) * 10000, 510) >>
      ELSE << WrapHue(IF c[1] = mx THEN RDiv(6000 * (c[2] - c[3]), mx - mn)
                      ELSE IF c[2] = mx THEN 12000 + RDiv(6000 * (c[3] - c[1]), mx - mn)
                      ELSE 24000 + RDiv(6000 * (c[1] - c[2]), mx - mn)),
              RDiv((mx - mn) * 10000, IF mx + mn < 255 THEN mx + mn ELSE 510 - mx - mn),
              RDiv((mx + mn) * 10000, 510) >>

ToChannel(v) == Min(255, Max(0, RDiv(v * 255, 10000)))

HslChannel(t0, t1, t2) ==
  LET t == IF t0 < 0 THEN t0 + 36000 ELSE IF t0 > 36000 THEN t0 - 36000 ELSE t0
  IN  ToChannel(IF t < 6000 THEN t1 + RDiv((t2 - t1) * t, 6000)
                ELSE IF t < 18000 THEN t2
                ELSE IF t < 24000 THEN t1 + RDiv((t2 - t1) * (24000 - t), 6000)
                ELSE t1)

\* chroma.hsl(h, s, l).hex(), as a channel triple
chromaFromHsl(h, s, l) ==
  LET t2 == IF l < 5000 THEN l + RDiv(l * s, 10000) ELSE l + s - RDiv(l * s, 10000)
  IN  IF s = 0 THEN << ToChannel(l), ToChannel(l), ToChannel(l) >>
      ELSE << HslChannel(h + 12000, 2 * l - t2, t2),
              HslChannel(h, 2 * l - t2, t2),
              HslChannel(h - 12000, 2 * l - t2, t2) >>

-----------------------------------------------------------------------------
(* chroma-js: luminance and contrast *)

\* chroma(c).luminance(), 1/100000
chromaLuminance(c) ==
  RDiv(2126 * LinTable[c[1] + 1] + 7152 * LinTable[c[2] + 1] + 722 * LinTable[c[3] + 1], 10000)

\* chroma.contrast(a, b), 1/1000 (rounded down)
chromaContrast(a, b) ==
  ((Max(chromaLuminance(a), chromaLuminance(b)) + 5000) * 1000)
    \div (Min(chromaLuminance(a), chromaLuminance(b)) + 5000)

-----------------------------------------------------------------------------
(* chroma-js: CIE L*a*b* *)

RECURSIVE CubeRootSearch(_, _, _)
CubeRootSearch(t, lo, hi) ==
  IF lo >= hi THEN lo
  ELSE IF ((((lo + hi + 1) \div 2) * ((lo + hi + 1) \div 2)) \div 1000) * ((lo + hi + 1) \div 2) <= t
       THEN CubeRootSearch(t, (lo + hi + 1) \div 2, hi)
       ELSE CubeRootSearch(t, lo, ((lo + hi + 1) \div 2) - 1)

\* xyz_lab: t (1/10^9) -> f(t) (1/10000)
XyzLab(t) == IF t > 8856452 THEN CubeRootSearch(t, 0, 10000) ELSE RDiv(t, 12842) + 1379

\* chroma(c).lab() with the white point folded into the matrix rows
chromaLab(c) ==
  LET r  == LinTable[c[1] + 1]
      g  == LinTable[c[2] + 1]
      b  == LinTable[c[3] + 1]
      fy == XyzLab(2127 * r + 7151 * g + 722 * b)
  IN  << Max(0, RDiv(116 * fy - 160000, 100)),
         5 * (XyzLab(4340 * r + 3762 * g + 1898 * b) - fy),
         2 * (fy - XyzLab(177 * r + 1095 * g + 8728 * b)) >>

\* lab_xyz: f (1/10000) -> t (1/100000)
LabXyz(m0) ==
  LET m == Min(m0, 17500)
  IN  IF m > 10000 THEN RDiv(((m * m) \div 10000) * m, 1000)
      ELSE IF m > 2069 THEN RDiv(((m * m) \div 1000) * m, 10000)
      ELSE RDiv(12842 * (m - 1379), 10000)

RECURSIVE RoundSearch(_, _, _)
RoundSearch(v, lo, hi) ==
  IF lo >= hi THEN lo
  ELSE IF RoundBoundary[((lo + hi + 1) \div 2) + 1] <= v
       THEN RoundSearch(v, (lo + hi + 1) \div 2, hi)
       ELSE RoundSearch(v, lo, ((lo + hi + 1) \div 2) - 1)

\* xyz_rgb, rounded and clipped: linear (1/100000) -> channel
XyzRgb(v) == IF v <= 0 THEN 0 ELSE RoundSearch(v, 0, 255)

\* chroma.lab(l, a, b).hex(), as a channel triple
chromaFromLab(lab) ==
  LET my == RDiv((lab[1] + 1600) * 100, 116)
      tx == LabXyz(my + RDiv(lab[2], 5))
      ty == LabXyz(my)
      tz == LabXyz(my - RDiv(lab[3], 2))
  IN  << XyzRgb(RDiv(3080 * tx - 1537 * ty - 543 * tz, 1000)),
         XyzRgb(RDiv(1876 * ty - 921 * tx + 45 * tz, 1000)),
         XyzRgb(RDiv(53 * tx - 204 * ty + 1151 * tz, 1000)) >>

\* the square of the Euclidean distance of two L*a*b* triples, 1/10000
DistanceSq(x, y) ==
  (x[1] - y[1]) * (x[1] - y[1]) + (x[2] - y[2]) * (x[2] - y[2])
    + (x[3] - y[3]) * (x[3] - y[3])

\* chroma.distance(a, b) < d, d in whole L*a*b* units
CloserThan(a, b, d) == DistanceSq(chromaLab(a), chromaLab(b)) < (d * 100) * (d * 100)

\* chroma(c).darken(k) for k >= 0 and chroma(c).brighten(-k) for k < 0
chromaDarken(c, k) ==
  chromaFromLab(<< chromaLab(c)[1] - 1800 * k, chromaLab(c)[2], chromaLab(c)[3] >>)

-----------------------------------------------------------------------------
(* chroma-js: LCH and chroma.scale *)

\* sin of h, 0 <= h <= 9000 (hundredths of a degree), 1/10000
Sin90(h) ==
  LET d == h \div 100
  IN  IF h % 100 = 0 THEN SinTable[d + 1]
      ELSE SinTable[d + 1] + RDiv((SinTable[d + 2] - SinTable[d + 1]) * (h % 100), 100)

Sin(h) ==
  LET t == h % 36000
  IN  IF t <= 9000 THEN Sin90(t)
      ELSE IF t <= 18000 THEN Sin90(18000 - t)
      ELSE IF t <= 27000 THEN 0 - Sin90(t - 18000)
      ELSE 0 - Sin90(36000 - t)

Cos(h) == Sin(h + 9000)

RECURSIVE SqrtSearch(_, _, _)
SqrtSearch(n, lo, hi) ==
  IF lo >= hi THEN lo
  ELSE IF ((lo + hi + 1) \div 2) * ((lo + hi + 1) \div 2) <= n
       THEN SqrtSearch(n, (lo + hi + 1) \div 2, hi)
       ELSE SqrtSearch(n, lo, ((lo + hi + 1) \div 2) - 1)

Sqrt(n) == SqrtSearch(n, 0, 46340)

RECURSIVE AngleSearch(_, _, _, _)
AngleSearch(a, b, lo, hi) ==
  IF lo >= hi THEN lo
  ELSE IF Sin90((lo + hi + 1) \div 2) * a <= Sin90(9000 - ((lo + hi + 1) \div 2)) * b
       THEN AngleSearch(a, b, (lo + hi + 1) \div 2, hi)
       ELSE AngleSearch(a, b, lo, ((lo + hi + 1) \div 2) - 1)

\* atan2(b, a) in hundredths of a degree, 0..35999
Atan2(b, a) ==
  LET d == AngleSearch(Abs(a), Abs(b), 0, 9000)
  IN  IF a >= 0 /\ b >= 0 THEN d % 36000
      ELSE IF a < 0 /\ b >= 0 THEN 18000 - d
      ELSE IF a < 0 THEN 18000 + d
      ELSE (36000 - d) % 36000

\* lab2lch: << L, chroma, hue >>; the hue of a colour without chroma is NaN
LabLch(lab) ==
  << lab[1], Sqrt(lab[2] * lab[2] + lab[3] * lab[3]),
     IF lab[2] = 0 /\ lab[3] = 0 THEN -1 ELSE Atan2(lab[3], lab[2]) >>

\* lch2lab
LchLab(lch) ==
  LET h == IF lch[3] < 0 THEN 0 ELSE lch[3]
  IN  << lch[1], RDiv(Cos(h) * lch[2], 10000), RDiv(Sin(h) * lch[2], 10000) >>

\* the way from hue h0 to hue h1 along the shorter arc
HueDelta(h0, h1) ==
  IF h1 > h0 /\ h1 - h0 > 18000 THEN h1 - (h0 + 36000)
  ELSE IF h1 < h0 /\ h0 - h1 > 18000 THEN h1 + 36000 - h0
  ELSE h1 - h0

\* the mix of two LCH triples: the hue and the chroma of the other colour
\* stand in for a hue that is NaN
MixLch(x0, x1, i, n) ==
  chromaFromLab(LchLab(
    << x0[1] + RDiv((x1[1] - x0[1]) * i, n),
       IF x0[3] >= 0 /\ x1[3] < 0 /\ x1[1] \in {0, 100} THEN x0[2]
       ELSE IF x0[3] < 0 /\ x1[3] >= 0 /\ x0[1] \in {0, 100} THEN x1[2]
       ELSE x0[2] + RDiv((x1[2] - x0[2]) * i, n),
       IF x0[3] >= 0 /\ x1[3] >= 0
       THEN (x0[3] + RDiv(HueDelta(x0[3], x1[3]) * i, n)) % 36000
       ELSE IF x0[3] >= 0 THEN x0[3]
       ELSE x1[3] >>))

\* chroma.interpolate(c0, c1, i/n, 'lch'): L and chroma linearly, the hue
\* along the shorter arc
InterpolateLch(c0, c1, i, n) == MixLch(LabLch(chromaLab(c0)), LabLch(chromaLab(c1)), i, n)

MixLab(x0, x1, i, n) ==
  chromaFromLab(<< x0[1] + RDiv((x1[1] - x0[1]) * i, n),
                   x0[2] + RDiv((x1[2] - x0[2]) * i, n),
                   x0[3] + RDiv((x1[3] - x0[3]) * i, n) >>)

\* chroma.interpolate(c0, c1, i/n, 'lab')
InterpolateLab(c0, c1, i, n) == MixLab(chromaLab(c0), chromaLab(c1), i, n)

\* chroma.scale([c0, c1]).mode('lch').colors(n): sample k (0-based) of n;
\* the two ends are the given colours themselves
ScaleLch(c0, c1, n) ==
  [k \in 1..n |-> IF k = 1 THEN c0
                  ELSE IF k = n THEN c1
                  ELSE InterpolateLch(c0, c1, k - 1, n - 1)]

-----------------------------------------------------------------------------
(* Hex strings *)

Hex(c) == [form |-> "hex", rgb |-> c]

\* chroma(h) throws on a string it cannot parse
Parses(h) == h.form # "junk"

White == << 255, 255, 255 >>
Black == << 0, 0, 0 >>
DarkGray == << 51, 51, 51 >>

-----------------------------------------------------------------------------
(* colorUtils.ts *)

calculateContrastRatio(color1, color2) == chromaContrast(color1, color2)

\* ComplianceAt with the threshold of AAASmall for AAALarge
ComplianceAtLarge7(contrastRatio) ==
  [AALarge  |-> contrastRatio >= 3000,
   AASmall  |-> contrastRatio >= 4500,
   AAALarge |-> contrastRatio >= 7000,
   AAASmall |-> contrastRatio >= 7000]

ComplianceAt(contrastRatio) ==
  [AALarge  |-> contrastRatio >= 3000,
   AASmall  |-> contrastRatio >= 4500,
   AAALarge |-> contrastRatio >= 4500,
   AAASmall |-> contrastRatio >= 7000]

checkWCAGCompliance(foregroundColor, backgroundColor) ==
  ComplianceAt(calculateContrastRatio(foregroundColor, backgroundColor))

getTargetContrastForLevel(strictnessLevel) ==
  CASE strictnessLevel = "AALarge"  -> 3000
    [] strictnessLevel = "AASmall"  -> 4500
    [] strictnessLevel = "AAALarge" -> 4500
    [] strictnessLevel = "AAASmall" -> 7000
    [] OTHER -> 4500

\* for (let l = 0.5; l >= 0; l -= 0.05) visits 0.5, 0.45, ..., 0.05 and a last
\* value of 7e-17; for (let l = 0.5; l <= 1; l += 0.05) visits 0.5, ..., 0.95
\* and stops there, because the eleventh value is 1.0000000000000004

\* Meeting without the test: every test colour is taken
MeetingAny(testColor, backgroundColor, targetContrast) == << testColor >>

\* << testColor >> when it meets the target, else << >>
Meeting(testColor, backgroundColor, targetContrast) ==
  IF calculateContrastRatio(testColor, backgroundColor) >= targetContrast
  THEN << testColor >>
  ELSE << >>

\* the first of two results that found a colour
FirstFound(found, otherwise) == IF found # << >> THEN found ELSE otherwise

\* one lightness sweep at hue h and saturation s, from step k on: << first
\* colour meeting the target >>, or << >> when none does
RECURSIVE LightnessSweep(_, _, _, _, _, _)
LightnessSweep(h, s, isLightBackground, k, backgroundColor, targetContrast) ==
  IF k > (IF isLightBackground THEN 11 ELSE 10) THEN << >>
  ELSE FirstFound(Meeting(chromaFromHsl(h, s, IF isLightBackground THEN 5000 - 500 * (k - 1)
                                              ELSE 5000 + 500 * (k - 1)),
                          backgroundColor, targetContrast),
                  LightnessSweep(h, s, isLightBackground, k + 1, backgroundColor,
                                 targetContrast))

\* for (let s = 0.7; s <= 1; s += 0.1): four saturations, 0.7 to 1.0
RECURSIVE SaturationSweep(_, _, _, _, _)
SaturationSweep(h, j, isLightBackground, backgroundColor, targetContrast) ==
  IF j > 4 THEN << >>
  ELSE FirstFound(LightnessSweep(h, 7000 + 1000 * (j - 1), isLightBackground, 1,
                                 backgroundColor, targetContrast),
                  SaturationSweep(h, j + 1, isLightBackground, backgroundColor,
                                  targetContrast))

\* LastResort without its first steps: black or white at once
LastResortExtreme(baseColor, backgroundColor, targetContrast, isLightBackground) ==
  IF calculateContrastRatio(Black, backgroundColor)
       > calculateContrastRatio(White, backgroundColor)
  THEN Black
  ELSE White

\* the last resort of optimizeColorForBackground: the brightened or darkened
\* version, else #333333, black or white
LastResort(baseColor, backgroundColor, targetContrast, isLightBackground) ==
  LET version == chromaDarken(baseColor, IF isLightBackground THEN 3 ELSE -3)
  IN  IF calculateContrastRatio(version, backgroundColor) >= targetContrast THEN version
      ELSE IF isLightBackground
              /\ calculateContrastRatio(DarkGray, backgroundColor) >= targetContrast
           THEN DarkGray
      ELSE IF calculateContrastRatio(Black, backgroundColor)
                > calculateContrastRatio(White, backgroundColor)
           THEN Black
      ELSE White

\* the two sweeps at the hue h and saturation s of the base colour, then the
\* last resort
Optimized(baseColor, h, s, isLightBackground, backgroundColor, targetContrast) ==
  FirstFound(FirstFound(LightnessSweep(h, s, isLightBackground, 1, backgroundColor,
                                       targetContrast),
                        SaturationSweep(h, 1, isLightBackground, backgroundColor,
                                        targetContrast)),
             << LastResort(baseColor, backgroundColor, targetContrast,
                           isLightBackground) >>)[1]

optimizeColorForBackground(baseColor, backgroundColor, targetContrast) ==
  IF calculateContrastRatio(baseColor, backgroundColor) >= targetContrast THEN baseColor
  ELSE Optimized(baseColor, OrElse(chromaHsl(baseColor)[1], 0),
                 Min(10000, Max(5000, OrElse(chromaHsl(baseColor)[2], 6000))),
                 chromaLab(backgroundColor)[1] > 5000, backgroundColor, targetContrast)

-----------------------------------------------------------------------------
(* Strings: a string is the sequence of its characters *)

Digit(d) == << "0", "1", "2", "3", "4", "5", "6", "7", "8", "9" >>[d + 1]

\* n.toString(), 0 <= n < 100
NumberText(n) == IF n < 10 THEN << Digit(n) >> ELSE << Digit(n \div 10), Digit(n % 10) >>

\* n.toString().padStart(2, '0')
PadStart2(n) == IF n < 10 THEN << "0", Digit(n) >> ELSE NumberText(n)

\* ch.toLowerCase(), for the capitals the names hold
LowerChar(ch) ==
  LET Upper == << "A", "B", "C", "D", "F", "L", "M", "P", "S" >>
      Lower == << "a", "b", "c", "d", "f", "l", "m", "p", "s" >>
  IN  IF \E k \in 1..Len(Upper) : Upper[k] = ch
      THEN Lower[CHOOSE k \in 1..Len(Upper) : Upper[k] = ch]
      ELSE ch

\* s.toLowerCase().replace(/\s+/g, '-'): each run of white space becomes one '-'
RECURSIVE SlugFrom(_, _)
SlugFrom(s, k) ==
  IF k > Len(s) THEN << >>
  ELSE IF s[k] = " "
       THEN (IF k > 1 /\ s[k - 1] = " " THEN << >> ELSE << "-" >>) \o SlugFrom(s, k + 1)
       ELSE << LowerChar(s[k]) >> \o SlugFrom(s, k + 1)

\* Slug with the pattern /\s/g: every white space character becomes a '-'
SlugEach(s) == [k \in 1..Len(s) |-> IF s[k] = " " THEN "-" ELSE LowerChar(s[k])]

Slug(s) == SlugFrom(s, 1)

generateToken(prefix, paletteName, paletteType, index) ==
  prefix \o << "." >> \o paletteType \o << "." >> \o paletteName \o << "." >> \o PadStart2(index)

\* the string literals of the code
Text ==
  [color         |-> << "C", "o", "l", "o", "r", " " >>,
   colorToken    |-> << "c", "o", "l", "o", "r", "-" >>,
   shade         |-> << "s", "h", "a", "d", "e", "-" >>,
   divergingStep |-> << "d", "i", "v", "e", "r", "g", "i", "n", "g", "-" >>,
   auto          |-> << "A", "u", "t", "o", " " >>,
   first         |-> << "F", "i", "r", "s", "t" >>,
   middle        |-> << "M", "i", "d", "d", "l", "e" >>,
   last          |-> << "L", "a", "s", "t" >>,
   categorical   |-> << "c", "a", "t", "e", "g", "o", "r", "i", "c", "a", "l" >>,
   sequential    |-> << "s", "e", "q", "u", "e", "n", "t", "i", "a", "l" >>,
   diverging     |-> << "d", "i", "v", "e", "r", "g", "i", "n", "g" >>,
   palette       |-> << " ", "P", "a", "l", "e", "t", "t", "e" >>,
   defaultPrefix |-> << "c", "o", "l", "o", "r", ".", "d", "a", "t", "a", "v", "i", "z" >>]

\* 'categorical' | 'sequential' | 'diverging' as text
TypeText(type) ==
  CASE type = "categorical" -> Text.categorical
    [] type = "sequential"  -> Text.sequential
    [] type = "diverging"   -> Text.diverging

-----------------------------------------------------------------------------
(* Color records *)

\* the value of a property that is not there
Undefined == [undefined |-> TRUE]

\* the object {}
EmptyObject == [empty |-> TRUE]

\* one mode's variant of a colour
Variant(hex, background) ==
  [hex            |-> hex,
   contrastRatio  |-> chromaContrast(hex.rgb, background.rgb),
   wcagCompliance |-> checkWCAGCompliance(hex.rgb, background.rgb)]

\* v is an object (reading a property of it does not throw)
IsObject(v) == "undefined" \notin DOMAIN v

\* v holds a hex string
HasHex(v) == "hex" \in DOMAIN v

\* a colour with both variants in place
IsFull(color) ==
  /\ IsObject(color.light) /\ HasHex(color.light)
  /\ IsObject(color.dark) /\ HasHex(color.dark)

-----------------------------------------------------------------------------
(* Math.random(): the k-th draw of the generator seeded with seed, 1/10000 *)

Draw(seed, k) == (seed * 2749 + k * 6133 + seed * k * 977) % 10000

-----------------------------------------------------------------------------
(* Palette generation *)

MIN_PERCEPTUAL_DISTANCE == 40
maxAttempts == 30
PaletteSize == 12

calculateColorDistanceBelow(color1, color2, threshold) == CloserThan(color1, color2, threshold)

\* isColorTooSimilar(color, otherColors).similar
isColorTooSimilar(color, otherColors) ==
  \E j \in 1..Len(otherColors) :
     calculateColorDistanceBelow(color, otherColors[j], MIN_PERCEPTUAL_DISTANCE)

MakeColor(name, token, editable, lightHex, darkHex, lightBackground, darkBackground) ==
  [name     |-> name,
   token    |-> token,
   editable |-> editable,
   light    |-> Variant(Hex(lightHex), lightBackground),
   dark     |-> Variant(Hex(darkHex), darkBackground)]

\* one pass of the while loop of generateDistinctColors: the light colour of
\* the current hue and its dark companion
DistinctCandidate(hue, baseSaturation, lightBackground, darkBackground, targetContrast) ==
  LET newLightColor == optimizeColorForBackground(chromaFromHsl(hue, baseSaturation, 5000),
                                                  lightBackground.rgb, targetContrast)
      lightColorHsl == chromaHsl(newLightColor)
  IN  [light |-> newLightColor,
       dark  |-> optimizeColorForBackground(
                   chromaFromHsl(OrElse(lightColorHsl[1], hue),
                                 Min(10000, OrElse(lightColorHsl[2], baseSaturation) + 1000),
                                 Min(8000, Max(4000, OrElse(lightColorHsl[3], 5000) + 2000))),
                   darkBackground.rgb, targetContrast)]

\* the while loop: up to maxAttempts candidates, the hue moved on by 10 degrees
\* after each one that is too similar; the last candidate stands
RECURSIVE DistinctPick(_, _, _, _, _, _, _, _)
PickFrom(cand, lightColors, hue, attempts, seed, k, lightBackground, darkBackground, targetContrast) ==
  IF ~isColorTooSimilar(cand.light, lightColors)
  THEN [light |-> cand.light, dark |-> cand.dark, hue |-> hue, k |-> k + 1]
  ELSE IF attempts + 1 < maxAttempts
  THEN DistinctPick(lightColors, (hue + 1000) % 36000, attempts + 1, seed, k + 1,
                    lightBackground, darkBackground, targetContrast)
  ELSE [light |-> cand.light, dark |-> cand.dark, hue |-> (hue + 1000) % 36000, k |-> k + 1]

DistinctPick(lightColors, hue, attempts, seed, k, lightBackground, darkBackground, targetContrast) ==
  PickFrom(DistinctCandidate(hue, 7000 + (Draw(seed, k) * 3000) \div 10000,
                             lightBackground, darkBackground, targetContrast),
           lightColors, hue, attempts, seed, k, lightBackground, darkBackground,
           targetContrast)

\* the for loop: colour i and the hue stepped on for the next one
RECURSIVE DistinctLoop(_, _, _, _, _, _, _, _, _, _)
LoopFrom(p, i, count, lightColors, darkColors, seed, lightBackground, darkBackground, targetContrast) ==
  DistinctLoop(i + 1, count, Append(lightColors, p.light), Append(darkColors, p.dark),
               (p.hue + 36000 \div count) % 36000, seed, p.k,
               lightBackground, darkBackground, targetContrast)

DistinctLoop(i, count, lightColors, darkColors, hue, seed, k, lightBackground, darkBackground, targetContrast) ==
  IF i >= count THEN [light |-> lightColors, dark |-> darkColors]
  ELSE LoopFrom(DistinctPick(lightColors, hue, 0, seed, k, lightBackground, darkBackground,
                             targetContrast),
                i, count, lightColors, darkColors, seed, lightBackground, darkBackground,
                targetContrast)

generateDistinctColors(count, lightBackground, darkBackground, targetContrast, existingColors, seed) ==
  DistinctLoop(0, count, existingColors, << >>, (Draw(seed, 1) * 36000) \div 10000, seed, 2,
               lightBackground, darkBackground, targetContrast)

categoricalColors(distinct, lightBackground, darkBackground) ==
  [index \in 1..Len(distinct.light) |->
     MakeColor(Text.color \o NumberText(index), Text.colorToken \o NumberText(index),
               "undefined", distinct.light[index], distinct.dark[index],
               lightBackground, darkBackground)]

\* usePaletteGenerator.ts generateCategoricalPalette
generateCategoricalPalette(count, lightBackground, darkBackground, targetContrast, seed, id) ==
  [id     |-> id,
   name   |-> << "C" >> \o Tail(Text.categorical) \o Text.palette,
   type   |-> "categorical",
   colors |-> categoricalColors(generateDistinctColors(count, lightBackground, darkBackground,
                                                       targetContrast, << >>, seed),
                                lightBackground, darkBackground),
   lightModeBackground |-> lightBackground,
   darkModeBackground  |-> darkBackground]

sequentialPaletteOptions ==
  << [startColor |-> << 227, 242, 253 >>, endColor |-> << 13, 71, 161 >>],
     [startColor |-> << 232, 245, 233 >>, endColor |-> << 27, 94, 32 >>],
     [startColor |-> << 243, 229, 245 >>, endColor |-> << 74, 20, 140 >>],
     [startColor |-> << 255, 243, 224 >>, endColor |-> << 230, 81, 0 >> ] >>

\* a dark key colour, optimised when it falls short of 3:1
DarkKey(color, darkBackground) ==
  IF chromaContrast(color, darkBackground.rgb) >= 3000 THEN color
  ELSE optimizeColorForBackground(color, darkBackground.rgb, 3000)

\* the end colour, its hue turned by 45 degrees when it is too close to the start
LastLightOf(selectedPalette) ==
  IF calculateColorDistanceBelow(selectedPalette.startColor, selectedPalette.endColor,
                                 MIN_PERCEPTUAL_DISTANCE)
  THEN chromaFromHsl((chromaHsl(selectedPalette.endColor)[1] + 4500) % 36000,
                     chromaHsl(selectedPalette.endColor)[2],
                     chromaHsl(selectedPalette.endColor)[3])
  ELSE selectedPalette.endColor

ShadesOf(lightScale, darkScale, lightBackground, darkBackground) ==
  [k \in 1..Len(lightScale) |->
     MakeColor(IF k = 1 THEN Text.first
               ELSE IF k = Len(lightScale) THEN Text.last
               ELSE Text.auto \o NumberText(k - 1),
               Text.shade \o NumberText(k),
               IF k = 1 \/ k = Len(lightScale) THEN "true" ELSE "false",
               lightScale[k], darkScale[k], lightBackground, darkBackground)]

\* the two scales: the dark keys are darker, more saturated versions of the
\* light ones
ShadesBetween(firstLightColor, lastLightColor, lightBackground, darkBackground) ==
  LET firstHsl == chromaHsl(firstLightColor)
      lastHsl  == chromaHsl(lastLightColor)
  IN  ShadesOf(ScaleLch(firstLightColor, lastLightColor, 12),
               ScaleLch(DarkKey(chromaFromHsl(OrElse(firstHsl[1], 0),
                                              Min(10000, OrElse(firstHsl[2], 0) + 2000),
                                              Max(2000, OrElse(firstHsl[3], 0) - 2000)),
                                darkBackground),
                        DarkKey(chromaFromHsl(OrElse(lastHsl[1], 0),
                                              Min(10000, OrElse(lastHsl[2], 0) + 1500),
                                              Min(9000, Max(3000, OrElse(lastHsl[3], 0) + 1000))),
                                darkBackground),
                        12),
               lightBackground, darkBackground)

\* colorUtils.ts generateSequentialPalette: the twelve Color records
sequentialColors(lightBackground, darkBackground, seed) ==
  ShadesBetween(
    sequentialPaletteOptions[(Draw(seed, 1) * Len(sequentialPaletteOptions)) \div 10000 + 1]
      .startColor,
    LastLightOf(
      sequentialPaletteOptions[(Draw(seed, 1) * Len(sequentialPaletteOptions)) \div 10000 + 1]),
    lightBackground, darkBackground)

\* usePaletteGenerator.ts generateSequentialPalette
generateSequentialPalette(count, lightBackground, darkBackground, targetContrast, seed, id) ==
  [id     |-> id,
   name   |-> << "S" >> \o Tail(Text.sequential) \o Text.palette,
   type   |-> "sequential",
   colors |-> sequentialColors(lightBackground, darkBackground, seed),
   lightModeBackground |-> lightBackground,
   darkModeBackground  |-> darkBackground]

\* chroma.scale([startColor, midColor, endColor]).mode('lab').colors(count):
\* sample k (1-based); the middle stop lies at 0.5
ScaleLab3(startColor, midColor, endColor, count) ==
  [k \in 1..count |->
     IF k = 1 THEN startColor
     ELSE IF k = count THEN endColor
     ELSE IF 2 * (k - 1) = count - 1 THEN midColor
     ELSE IF 2 * (k - 1) < count - 1
          THEN InterpolateLab(startColor, midColor, 2 * (k - 1), count - 1)
     ELSE InterpolateLab(midColor, endColor, 2 * (k - 1) - (count - 1), count - 1)]

\* a colour of the gradient, darkened or brightened in the middle area when
\* it falls short of the target
Adjusted(baseHex, isMiddleArea, background, targetContrast, amount) ==
  IF isMiddleArea /\ chromaContrast(baseHex, background.rgb) < targetContrast
  THEN chromaDarken(baseHex, amount)
  ELSE baseHex

\* the Color records of the gradient; the middle area are the indices between
\* a third and two thirds of count
DivergingColors(fullGradient, count, lightBackground, darkBackground, targetContrast) ==
  [k \in 1..count |->
     MakeColor(IF k - 1 = 0 THEN Text.first
               ELSE IF k - 1 = count \div 2 THEN Text.middle
               ELSE IF k - 1 = count - 1 THEN Text.last
               ELSE Text.auto \o NumberText(k),
               Text.divergingStep \o NumberText(k),
               IF k - 1 = 0 \/ k - 1 = count \div 2 \/ k - 1 = count - 1
               THEN "true" ELSE "false",
               Adjusted(fullGradient[k], k - 1 > count \div 3 /\ k - 1 < (count * 2) \div 3,
                        lightBackground, targetContrast, 1),
               Adjusted(fullGradient[k], k - 1 > count \div 3 /\ k - 1 < (count * 2) \div 3,
                        darkBackground, targetContrast, -1),
               lightBackground, darkBackground)]

\* usePaletteGenerator.ts createDivergingPalette
createDivergingPalette(count, lightBackground, darkBackground, targetContrast, seed, id) ==
  [id     |-> id,
   name   |-> << "D" >> \o Tail(Text.diverging) \o Text.palette,
   type   |-> "diverging",
   colors |-> DivergingColors(
                ScaleLab3(chromaFromHsl((Draw(seed, 1) * 36000) \div 10000, 8000, 5000),
                          << 245, 245, 245 >>,
                          chromaFromHsl(((Draw(seed, 1) * 36000) \div 10000 + 18000) % 36000,
                                        8000, 5000),
                          count),
                count, lightBackground, darkBackground, targetContrast),
   lightModeBackground |-> lightBackground,
   darkModeBackground  |-> darkBackground]

-----------------------------------------------------------------------------
(* editColorHex: the colour derived for the other mode *)

\* a.toLowerCase() === b.toLowerCase()
SameText(a, b) == a.form = b.form /\ a.rgb = b.rgb

MIN_COLOR_DISTANCE == 50

\* minContrast of editColorHex
minContrastFor(strictnessLevel) ==
  IF strictnessLevel = "AALarge" THEN 3000
  ELSE IF strictnessLevel = "AAASmall" THEN 7000
  ELSE 4500

\* targetHex before the contrast check: the first complementary colour, the
\* more extreme one when that is closer than MIN_COLOR_DISTANCE to the source,
\* the one with the hue shifted by 15 degrees when that one is too
ComplementaryTarget(sourceHex, hue, sat, light, otherMode) ==
  LET initial == IF otherMode = "dark"
                 THEN chromaFromHsl(hue, Min(10000, sat + 4000), Max(1000, light - 4000))
                 ELSE chromaFromHsl(hue, Max(500, sat - 3000), Min(9700, light + 4000))
      extreme == IF otherMode = "dark"
                 THEN chromaFromHsl(hue, 10000, Max(500, Min(3000, light - 5000)))
                 ELSE chromaFromHsl(hue, Max(0, Min(3000, sat - 4000)), 9000)
  IN  IF ~CloserThan(sourceHex.rgb, initial, MIN_COLOR_DISTANCE) THEN initial
      ELSE IF ~CloserThan(sourceHex.rgb, extreme, MIN_COLOR_DISTANCE) THEN extreme
      ELSE chromaFromHsl((hue + (IF otherMode = "dark" THEN 1500 ELSE -1500) + 36000) % 36000,
                         IF otherMode = "dark" THEN 10000 ELSE Max(0, sat - 4000),
                         IF otherMode = "dark" THEN Max(500, light - 5000) ELSE 9000)

\* the contrast check and the final check of generateComplementaryColor
Settled(sourceHex, targetHex, hue, targetBgColor, otherMode, minContrast) ==
  IF chromaContrast(targetHex, targetBgColor.rgb) < minContrast
  THEN Hex(optimizeColorForBackground(targetHex, targetBgColor.rgb, minContrast))
  ELSE IF SameText(Hex(targetHex), sourceHex)
  THEN (IF otherMode = "dark"
        THEN Hex(chromaFromHsl((hue + 18000) % 36000, 10000, 2000))
        ELSE Hex(chromaFromHsl((hue + 18000) % 36000, 2000, 9000)))
  ELSE Hex(targetHex)

generateComplementaryColor(sourceHex, targetBgColor, otherMode, minContrast) ==
  LET colorHsl == chromaHsl(sourceHex.rgb)
      hue      == OrElse(colorHsl[1], 0)
  IN  Settled(sourceHex,
              ComplementaryTarget(sourceHex, hue, OrElse(colorHsl[2], 5000),
                                  OrElse(colorHsl[3], 5000), otherMode),
              hue, targetBgColor, otherMode, minContrast)

\* the check against 40
AfterWarning(hex, hue, complementaryHex, otherMode) ==
  IF CloserThan(hex.rgb, complementaryHex.rgb, 40)
  THEN (IF otherMode = "dark" THEN Hex(chromaFromHsl(hue, 10000, 2000))
        ELSE Hex(chromaFromHsl(hue, 3000, 9000)))
  ELSE complementaryHex

\* the emergency check against 30
AfterEmergency(hex, hue, complementaryHex, otherMode) ==
  IF SameText(hex, complementaryHex) \/ CloserThan(hex.rgb, complementaryHex.rgb, 30)
  THEN (IF otherMode = "dark" THEN Hex(chromaFromHsl(hue, 10000, 1500))
        ELSE Hex(chromaFromHsl(hue, 1500, 9200)))
  ELSE complementaryHex

\* the categorical branch: the complementary colour and its two later checks
categoricalComplementary(hex, otherBgColor, otherMode, minContrast) ==
  LET hue == OrElse(chromaHsl(hex.rgb)[1], 0)
  IN  AfterEmergency(hex, hue,
                     AfterWarning(hex, hue,
                                  generateComplementaryColor(hex, otherBgColor, otherMode,
                                                             minContrast),
                                  otherMode),
                     otherMode)

\* the key colour branch: the forced colour, a yellow hue (50 to 70 degrees)
\* apart, replaces the complementary one
keyComplementary(hex, otherBgColor, otherMode, minContrast) ==
  LET hue    == OrElse(chromaHsl(hex.rgb)[1], 0)
      forced == IF hue >= 5000 /\ hue <= 7000
                THEN (IF otherMode = "dark" THEN chromaFromHsl(hue, 10000, 1500)
                      ELSE chromaFromHsl(hue, 1500, 9000))
                ELSE (IF otherMode = "dark" THEN chromaFromHsl(hue, 10000, 2000)
                      ELSE chromaFromHsl(hue, 2000, 8500))
  IN  IF chromaContrast(forced, otherBgColor.rgb) < minContrast
      THEN Hex(optimizeColorForBackground(forced, otherBgColor.rgb, minContrast))
      ELSE Hex(forced)

-----------------------------------------------------------------------------
(* editColorHex on one palette.  The result says whether the updater threw
   (the state update is then lost) and gives the palette it returns. *)

Returned(palette) == [threw |-> FALSE, palette |-> palette]
Threw(palette) == [threw |-> TRUE, palette |-> palette]

\* newColors[colorIndex] is an element of the array
InRange(colors, colorIndex) == colorIndex >= 0 /\ colorIndex < Len(colors)

\* a colour after hex, contrastRatio and wcagCompliance of both variants are written
WithVariants(color, lightHex, darkHex, prev) ==
  [color EXCEPT !.light = Variant(lightHex, prev.lightModeBaseColor),
                !.dark  = Variant(darkHex, prev.darkModeBaseColor)]

\* a colour after an edit in currentMode wrote hex and complementaryHex
Edited(color, hex, complementaryHex, currentMode, prev) ==
  IF currentMode = "light" THEN WithVariants(color, hex, complementaryHex, prev)
  ELSE WithVariants(color, complementaryHex, hex, prev)

editCategorical(palette, colorIndex, hex, currentMode, otherBgColor, minContrast, prev) ==
  IF ~InRange(palette.colors, colorIndex) THEN Threw(palette)
  ELSE IF ~IsObject(palette.colors[colorIndex + 1].light) THEN Threw(palette)
  ELSE IF ~Parses(hex) THEN Threw(palette)
  ELSE Returned([palette EXCEPT !.colors[colorIndex + 1] =
                   Edited(palette.colors[colorIndex + 1], hex,
                          categoricalComplementary(hex, otherBgColor,
                                                   IF currentMode = "light" THEN "dark"
                                                   ELSE "light",
                                                   minContrast),
                          currentMode, prev)])

\* a colour the scales can be built from and written to
Interpolable(color) == IsObject(color.light) /\ IsObject(color.dark)
Anchored(color) == Interpolable(color) /\ HasHex(color.light) /\ HasHex(color.dark)

\* slots from+1 .. to-1 (0-based) rewritten from the two scales
Rewritten(colors, from, to, lightScale, darkScale, prev) ==
  [k \in 1..Len(colors) |->
     IF k - 1 > from /\ k - 1 < to
     THEN WithVariants(colors[k], Hex(lightScale[k - from]), Hex(darkScale[k - from]), prev)
     ELSE colors[k]]

\* Regenerated with a loop that stops one slot early: slot to-1 keeps the colour
\* it had
RegeneratedShort(colors, from, to, prev) ==
  Rewritten(colors, from, to - 1,
            ScaleLch(colors[from + 1].light.hex.rgb, colors[to + 1].light.hex.rgb,
                     to - from + 1),
            ScaleLch(colors[from + 1].dark.hex.rgb, colors[to + 1].dark.hex.rgb,
                     to - from + 1),
            prev)

\* slots from+1 .. to-1 rewritten from the scales between the colours at from
\* and to
Regenerated(colors, from, to, prev) ==
  Rewritten(colors, from, to,
            ScaleLch(colors[from + 1].light.hex.rgb, colors[to + 1].light.hex.rgb,
                     to - from + 1),
            ScaleLch(colors[from + 1].dark.hex.rgb, colors[to + 1].dark.hex.rgb,
                     to - from + 1),
            prev)

\* the regeneration of the derived colours: between first and last in a
\* sequential palette, between first, middle and last in a diverging one.
\* << >> when it throws.
cascade(type, newColors, prev) ==
  IF \/ \E k \in 1..Len(newColors) : ~Interpolable(newColors[k])
     \/ ~Anchored(newColors[1])
     \/ type = "diverging" /\ ~Anchored(newColors[Len(newColors) \div 2 + 1])
     \/ ~Anchored(newColors[Len(newColors)])
  THEN << >>
  ELSE IF type = "sequential"
  THEN << Regenerated(newColors, 0, Len(newColors) - 1, prev) >>
  ELSE << Regenerated(Regenerated(newColors, 0, Len(newColors) \div 2, prev),
                      Len(newColors) \div 2, Len(newColors) - 1, prev) >>

isEditable(palette, colorIndex) ==
  \/ palette.colors[colorIndex + 1].editable = "true"
  \/ IF palette.type = "sequential"
     THEN colorIndex = 0 \/ colorIndex = Len(palette.colors) - 1
     ELSE colorIndex = 0 \/ colorIndex = Len(palette.colors) \div 2
            \/ colorIndex = Len(palette.colors) - 1

\* the palette with its rebuilt colours, if the cascade went through
Cascaded(palette, rebuilt) ==
  IF rebuilt = << >> THEN Threw(palette)
  ELSE Returned([palette EXCEPT !.colors = rebuilt[1]])

editKeyColor(palette, colorIndex, hex, currentMode, otherBgColor, minContrast, prev) ==
  IF ~InRange(palette.colors, colorIndex) THEN Threw(palette)
  ELSE IF ~isEditable(palette, colorIndex) THEN Returned(palette)
  ELSE IF ~Parses(hex) THEN Threw(palette)
  ELSE IF ~Interpolable(palette.colors[colorIndex + 1]) THEN Threw(palette)
  ELSE Cascaded(palette,
                cascade(palette.type,
                        [palette.colors EXCEPT ![colorIndex + 1] =
                           Edited(palette.colors[colorIndex + 1], hex,
                                  keyComplementary(hex, otherBgColor,
                                                   IF currentMode = "light" THEN "dark"
                                                   ELSE "light",
                                                   minContrast),
                                  currentMode, prev)],
                        prev))

\* the function mapped over prev.palettes by editColorHex
editColorHexIn(palette, paletteId, colorIndex, hex, mode, prev) ==
  LET currentMode  == IF mode = "undefined" THEN prev.currentMode ELSE mode
      otherBgColor == IF currentMode = "light" THEN prev.darkModeBaseColor
                      ELSE prev.lightModeBaseColor
  IN  IF palette.id # paletteId THEN Returned(palette)
      ELSE IF palette.type = "categorical"
      THEN editCategorical(palette, colorIndex, hex, currentMode, otherBgColor,
                           minContrastFor(prev.strictnessLevel), prev)
      ELSE editKeyColor(palette, colorIndex, hex, currentMode, otherBgColor,
                        minContrastFor(prev.strictnessLevel), prev)


\* the function mapped by editColorHex reaches, for palette, the setTimeout
\* that dispatches 'colorChanged'
schedulesColorChanged(palette, paletteId, colorIndex, hex, mode, prev) ==
  /\ palette.id = paletteId
  /\ ~editColorHexIn(palette, paletteId, colorIndex, hex, mode, prev).threw
  /\ palette.type # "categorical" => isEditable(palette, colorIndex)

-----------------------------------------------------------------------------
(* editColorName, reorderColors, updateColorTokens on one palette *)

\* {...undefined, name, token}: the element written past the end of the array
Stub(name, token) ==
  [name |-> name, token |-> token, editable |-> "undefined",
   light |-> Undefined, dark |-> Undefined]

\* the function mapped over prev.palettes by editColorName.  A negative index
\* sets a property that is no element of the array; the index colors.length
\* appends an element.
editColorNameIn(palette, paletteId, colorIndex, name) ==
  IF palette.id # paletteId \/ colorIndex < 0 THEN palette
  ELSE IF colorIndex < Len(palette.colors)
  THEN [palette EXCEPT !.colors[colorIndex + 1].name  = name,
                       !.colors[colorIndex + 1].token = Slug(name)]
  ELSE [palette EXCEPT !.colors = Append(palette.colors, Stub(name, Slug(name)))]

\* { ...color, light: { ...color.light }, dark: { ...color.dark } }
DeepCopy(color) ==
  [color EXCEPT !.light = IF IsObject(color.light) THEN color.light ELSE EmptyObject,
                !.dark  = IF IsObject(color.dark) THEN color.dark ELSE EmptyObject]

\* splice(oldIndex, 1) then splice(newIndex, 0, movedColor)
Moved(colors, oldIndex, newIndex) ==
  LET without == [k \in 1..(Len(colors) - 1) |->
                    IF k <= oldIndex THEN colors[k] ELSE colors[k + 1]]
  IN  [k \in 1..Len(colors) |->
         IF k <= newIndex THEN without[k]
         ELSE IF k = newIndex + 1 THEN colors[oldIndex + 1]
         ELSE without[k - 1]]

\* ValidIndices without the isNaN checks: NaN goes on as the index 0
ValidIndicesButNaN(oldIndex, newIndex) ==
  /\ oldIndex.kind # "undefined" /\ newIndex.kind # "undefined"
  /\ oldIndex.n >= 0 /\ newIndex.n >= 0

\* the index checks of reorderColors made before setState
ValidIndices(oldIndex, newIndex) ==
  /\ oldIndex.kind = "number" /\ newIndex.kind = "number"
  /\ oldIndex.n >= 0 /\ newIndex.n >= 0

\* what an updater does: it returns a new state ("updated"), returns prev
\* ("kept"), or throws, and then no state is set ("threw")
Updated(newState) == [outcome |-> "updated", state |-> newState]
Kept(prev) == [outcome |-> "kept", state |-> prev]
Thrown(prev) == [outcome |-> "threw", state |-> prev]

\* prev.palettes.find(p => p.id === paletteId), in a sequence of at most one
find(palettes, paletteId) ==
  IF \A k \in 1..Len(palettes) : palettes[k].id # paletteId THEN << >>
  ELSE << palettes[CHOOSE k \in 1..Len(palettes) :
                     /\ palettes[k].id = paletteId
                     /\ \A j \in 1..(k - 1) : palettes[j].id # paletteId] >>

\* the updater of reorderColors
reorderColorsUpdate(prev, paletteId, oldIndex, newIndex) ==
  LET targetPalette == find(prev.palettes, paletteId)
  IN  IF targetPalette = << >> THEN Kept(prev)
      ELSE IF \/ oldIndex >= Len(targetPalette[1].colors)
              \/ newIndex >= Len(targetPalette[1].colors)
      THEN Kept(prev)
      ELSE IF ~IsObject(targetPalette[1].colors[oldIndex + 1].light) THEN Thrown(prev)
      ELSE Updated([prev EXCEPT !.palettes =
                      [k \in 1..Len(prev.palettes) |->
                         IF prev.palettes[k].id = paletteId
                         THEN [prev.palettes[k] EXCEPT !.colors =
                                 Moved([j \in 1..Len(prev.palettes[k].colors) |->
                                          DeepCopy(prev.palettes[k].colors[j])],
                                       oldIndex, newIndex)]
                         ELSE prev.palettes[k]]])

updateColorTokens(palettes, newPrefix) ==
  [k \in 1..Len(palettes) |->
     [palettes[k] EXCEPT !.colors =
        [j \in 1..Len(palettes[k].colors) |->
           [palettes[k].colors[j] EXCEPT !.token =
              generateToken(newPrefix, Slug(palettes[k].name),
                            TypeText(palettes[k].type), j - 1)]]]]

\* the state an editColorHex updater returns, unless one of the mapped
\* functions threw
Collected(prev, results) ==
  IF \E k \in 1..Len(results) : results[k].threw THEN Thrown(prev)
  ELSE Updated([prev EXCEPT !.palettes = [k \in 1..Len(results) |-> results[k].palette]])

\* the updater of editColorHex
editColorHexUpdate(prev, paletteId, colorIndex, hex, mode) ==
  Collected(prev, [k \in 1..Len(prev.palettes) |->
                     editColorHexIn(prev.palettes[k], paletteId, colorIndex, hex, mode, prev)])

\* the palettes built by one call of generatePalettes
newPalettes(lightModeBaseColor, darkModeBaseColor, targetContrastRatio, seed, id, streams) ==
  << generateCategoricalPalette(PaletteSize, lightModeBaseColor, darkModeBaseColor,
                                targetContrastRatio, seed, id),
     generateSequentialPalette(PaletteSize, lightModeBaseColor, darkModeBaseColor,
                               targetContrastRatio, seed + streams, id + 1),
     createDivergingPalette(PaletteSize, lightModeBaseColor, darkModeBaseColor,
                            targetContrastRatio, seed + 2 * streams, id + 2) >>

\* regenerated without the line that keeps the name
regeneratedUnnamed(paletteToRegenerate, prev, targetContrastRatio, seed) ==
  [(CASE paletteToRegenerate.type = "categorical" ->
           generateCategoricalPalette(PaletteSize, prev.lightModeBaseColor,
                                      prev.darkModeBaseColor, targetContrastRatio, seed, 0)
      [] paletteToRegenerate.type = "sequential" ->
           generateSequentialPalette(PaletteSize, prev.lightModeBaseColor,
                                     prev.darkModeBaseColor, targetContrastRatio, seed, 0)
      [] paletteToRegenerate.type = "diverging" ->
           createDivergingPalette(PaletteSize, prev.lightModeBaseColor,
                                  prev.darkModeBaseColor, targetContrastRatio, seed, 0))
     EXCEPT !.id = paletteToRegenerate.id]

\* the palette regeneratePalette puts in the place of paletteToRegenerate: a
\* new one of its type, with its id and its name
regenerated(paletteToRegenerate, prev, targetContrastRatio, seed) ==
  [(CASE paletteToRegenerate.type = "categorical" ->
           generateCategoricalPalette(PaletteSize, prev.lightModeBaseColor,
                                      prev.darkModeBaseColor, targetContrastRatio, seed, 0)
      [] paletteToRegenerate.type = "sequential" ->
           generateSequentialPalette(PaletteSize, prev.lightModeBaseColor,
                                     prev.darkModeBaseColor, targetContrastRatio, seed, 0)
      [] paletteToRegenerate.type = "diverging" ->
           createDivergingPalette(PaletteSize, prev.lightModeBaseColor,
                                  prev.darkModeBaseColor, targetContrastRatio, seed, 0))
     EXCEPT !.id = paletteToRegenerate.id, !.name = paletteToRegenerate.name]

-----------------------------------------------------------------------------
(* The store of usePaletteGenerator and the effects of the Home page *)

VARIABLES
  state,    \* the AppState held by useState
  op,       \* the last call of the hook: its arguments and how it ended
  effects,  \* "pending" while the effects of Home have a generatePalettes to run
  uuid,     \* the identifiers generateId has handed out so far
  calls,    \* the number of calls made
  util      \* a call of a function of colorUtils: its arguments and its result

vars == << state, op, effects, uuid, calls, util >>

MaxCalls == 2
MaxEdits == 4
MaxSeed == 2
MaxNames == 3
MaxChanges == 4

initialState ==
  [lightModeBaseColor  |-> Hex(White),
   darkModeBaseColor   |-> Hex(<< 18, 18, 18 >>),
   currentMode         |-> "light",
   palettes            |-> << >>,
   tokenSettings       |-> [prefix |-> Text.defaultPrefix],
   selectedChartType   |-> "bar",
   strictnessLevel     |-> "AALarge",
   selectedPaletteType |-> "categorical"]

Number(n) == [kind |-> "number", n |-> n]
NaN == [kind |-> "NaN", n |-> 0]
UndefinedIndex == [kind |-> "undefined", n |-> 0]

\* the record of a call: its arguments, each with the value of an argument the
\* call does not have, and its outcome: "updated", "kept" (also a call that
\* returned before setState) or "threw"
NoCall ==
  [name       |-> "mount",
   paletteId  |-> -1,
   colorIndex |-> [kind |-> "none", n |-> 0],
   newIndex   |-> [kind |-> "none", n |-> 0],
   hex        |-> [form |-> "none", rgb |-> << 0, 0, 0 >>],
   mode       |-> "none",
   text       |-> << >>,
   scheduled  |-> FALSE,
   outcome    |-> "kept"]

\* no function of colorUtils is being called on its own
NoUtil == [name |-> "none", color |-> Black, background |-> Black, target |-> 0,
           result |-> << >>]

Init ==
  /\ state = initialState
  /\ op = NoCall
  /\ effects = "pending"
  /\ uuid = 0
  /\ calls = 0
  /\ util = NoUtil

\* the ids of the palettes in the store, and one that names no palette
UnknownId == 0
PaletteIds == {state.palettes[k].id : k \in 1..Len(state.palettes)} \cup {UnknownId}

\* Home: generatePalettes runs from an effect, after the first render and after
\* a render that changed a background colour or the strictness level
generatePalettes ==
  /\ effects = "pending"
  /\ IF Parses(state.lightModeBaseColor) /\ Parses(state.darkModeBaseColor)
     THEN /\ \E seed \in 1..MaxSeed :
               state' = [state EXCEPT !.palettes =
                           newPalettes(state.lightModeBaseColor, state.darkModeBaseColor,
                                       getTargetContrastForLevel(state.strictnessLevel), seed,
                                       uuid + 1, MaxSeed)]
          /\ op' = [NoCall EXCEPT !.name = "generatePalettes", !.outcome = "updated"]
          /\ effects' = "idle"
          /\ uuid' = uuid + 3
     ELSE /\ op' = [NoCall EXCEPT !.name = "generatePalettes", !.outcome = "threw"]
          /\ effects' = "failed"
          /\ UNCHANGED << state, uuid >>
  /\ calls' = calls + 1
  /\ UNCHANGED util

\* a call whose updater ended as next says, with no effect to run
Conclude(call, next) ==
  /\ state' = next.state
  /\ op' = [call EXCEPT !.outcome = next.outcome]
  /\ calls' = calls + 1
  /\ UNCHANGED << effects, uuid, util >>

\* a setter whose change makes the second effect of Home run
Setting(call, newState) ==
  /\ effects = "idle"
  /\ state' = newState
  /\ op' = [call EXCEPT !.outcome = "updated"]
  /\ effects' = IF newState # state THEN "pending" ELSE "idle"
  /\ calls' = calls + 1
  /\ UNCHANGED << uuid, util >>

setLightModeBaseColor(colors) ==
  \E color \in colors :
     Setting([NoCall EXCEPT !.name = "setLightModeBaseColor", !.hex = color],
             [state EXCEPT !.lightModeBaseColor = color])

setDarkModeBaseColor(colors) ==
  \E color \in colors :
     Setting([NoCall EXCEPT !.name = "setDarkModeBaseColor", !.hex = color],
             [state EXCEPT !.darkModeBaseColor = color])

setStrictnessLevel(levels) ==
  \E level \in levels :
     Setting([NoCall EXCEPT !.name = "setStrictnessLevel", !.text = << level >>],
             [state EXCEPT !.strictnessLevel = level])

setMode(modes) ==
  /\ effects = "idle"
  /\ \E mode \in modes :
       Conclude([NoCall EXCEPT !.name = "setMode", !.mode = mode],
                Updated([state EXCEPT !.currentMode = mode]))

toggleMode ==
  /\ effects = "idle"
  /\ Conclude([NoCall EXCEPT !.name = "toggleMode"],
              Updated([state EXCEPT !.currentMode =
                         IF state.currentMode = "light" THEN "dark" ELSE "light"]))

setChartType(chartTypes) ==
  /\ effects = "idle"
  /\ \E chartType \in chartTypes :
       Conclude([NoCall EXCEPT !.name = "setChartType", !.text = << chartType >>],
                Updated([state EXCEPT !.selectedChartType = chartType]))

setPaletteType(types) ==
  /\ effects = "idle"
  /\ \E type \in types :
       Conclude([NoCall EXCEPT !.name = "setPaletteType", !.text = << type >>],
                Updated([state EXCEPT !.selectedPaletteType = type]))

\* updateTokenSettings without the comparison of the prefixes
updateTokenSettingsAlways(prefixes) ==
  /\ effects = "idle"
  /\ \E prefix \in prefixes :
       Conclude([NoCall EXCEPT !.name = "updateTokenSettings", !.text = prefix],
                Updated([state EXCEPT !.tokenSettings = [prefix |-> prefix],
                                      !.palettes = updateColorTokens(state.palettes, prefix)]))

updateTokenSettings(prefixes) ==
  /\ effects = "idle"
  /\ \E prefix \in prefixes :
       Conclude([NoCall EXCEPT !.name = "updateTokenSettings", !.text = prefix],
                Updated(IF state.tokenSettings.prefix # prefix
                        THEN [state EXCEPT !.tokenSettings = [prefix |-> prefix],
                                           !.palettes = updateColorTokens(state.palettes,
                                                                          prefix)]
                        ELSE [state EXCEPT !.tokenSettings = [prefix |-> prefix]]))

editPaletteName(paletteIds, names) ==
  /\ effects = "idle"
  /\ \E paletteId \in paletteIds, name \in names :
       Conclude([NoCall EXCEPT !.name = "editPaletteName", !.paletteId = paletteId,
                               !.text = name],
                Updated([state EXCEPT !.palettes =
                           [k \in 1..Len(state.palettes) |->
                              IF state.palettes[k].id = paletteId
                              THEN [state.palettes[k] EXCEPT !.name = name]
                              ELSE state.palettes[k]]]))

\* colorIndex is at most the length of the palette: a larger one leaves a hole
\* in the array
editColorName(paletteIds, colorIndices, names) ==
  /\ effects = "idle"
  /\ \E paletteId \in paletteIds, colorIndex \in colorIndices, name \in names :
       /\ \A k \in 1..Len(state.palettes) : colorIndex <= Len(state.palettes[k].colors)
       /\ Conclude([NoCall EXCEPT !.name = "editColorName", !.paletteId = paletteId,
                                  !.colorIndex = Number(colorIndex), !.text = name],
                   Updated([state EXCEPT !.palettes =
                              [k \in 1..Len(state.palettes) |->
                                 editColorNameIn(state.palettes[k], paletteId, colorIndex,
                                                 name)]]))

editColorHex(paletteIds, colorIndices, hexes, modes) ==
  /\ effects = "idle"
  /\ \E paletteId \in paletteIds, colorIndex \in colorIndices, hex \in hexes, mode \in modes :
       Conclude([NoCall EXCEPT !.name = "editColorHex", !.paletteId = paletteId,
                               !.colorIndex = Number(colorIndex), !.hex = hex, !.mode = mode,
                               !.scheduled =
                                  \E k \in 1..Len(state.palettes) :
                                     schedulesColorChanged(state.palettes[k], paletteId,
                                                           colorIndex, hex, mode, state)],
                editColorHexUpdate(state, paletteId, colorIndex, hex, mode))

reorderColors(paletteIds, indices) ==
  /\ effects = "idle"
  /\ \E paletteId \in paletteIds, oldIndex \in indices, newIndex \in indices :
       Conclude([NoCall EXCEPT !.name = "reorderColors", !.paletteId = paletteId,
                               !.colorIndex = oldIndex, !.newIndex = newIndex],
                IF ValidIndices(oldIndex, newIndex)
                THEN reorderColorsUpdate(state, paletteId, oldIndex.n, newIndex.n)
                ELSE Kept(state))

\* the updater of regeneratePalette
regeneratePaletteUpdate(prev, paletteId, targetContrastRatio, seed) ==
  IF find(prev.palettes, paletteId) = << >> THEN Kept(prev)
  ELSE Updated([prev EXCEPT !.palettes =
                  [k \in 1..Len(prev.palettes) |->
                     IF prev.palettes[k].id = paletteId
                     THEN regenerated(find(prev.palettes, paletteId)[1], prev,
                                      targetContrastRatio, seed)
                     ELSE prev.palettes[k]]])

regeneratePalette(paletteIds) ==
  /\ effects = "idle"
  /\ \E paletteId \in paletteIds, seed \in 1..MaxSeed :
       Conclude([NoCall EXCEPT !.name = "regeneratePalette", !.paletteId = paletteId],
                regeneratePaletteUpdate(state, paletteId,
                                        getTargetContrastForLevel(state.strictnessLevel), seed))

-----------------------------------------------------------------------------
(* Inputs and specifications *)

Red40 == Hex(<< 191, 64, 64 >>)
Yellow == Hex(<< 255, 235, 59 >>)
\* 'BF4040': the digits of Red40 without the '#'
Bare == [form |-> "bare", rgb |-> << 191, 64, 64 >>]
\* a string chroma cannot parse
Junk == [form |-> "junk", rgb |-> << 0, 0, 0 >>]

NameSales == << "S", "a", "l", "e", "s", " ", " ", "M", "a", "p" >>
PrefixBrand == << "b", "r", "a", "n", "d" >>

\* the ids of the palettes with key colours
KeyedIds ==
  {state.palettes[k].id : k \in {j \in 1..Len(state.palettes) :
                                   state.palettes[j].type # "categorical"}}

\* the runs are cut after MaxCalls calls, those of the edits after MaxEdits
More == calls < MaxCalls
MoreEdits == calls < MaxEdits

\* every operation of the store, each with arguments of every kind
Next ==
  \/ More /\ generatePalettes
  \/ More /\ setLightModeBaseColor({Hex(<< 245, 245, 245 >>)})
  \/ More /\ setDarkModeBaseColor({Hex(Black)})
  \/ More /\ setStrictnessLevel({"AASmall", "AAASmall"})
  \/ More /\ setMode({"dark"})
  \/ More /\ toggleMode
  \/ More /\ setChartType({"pie"})
  \/ More /\ setPaletteType({"diverging"})
  \/ More /\ updateTokenSettings({PrefixBrand})
  \/ More /\ editPaletteName(PaletteIds, {NameSales})
  \/ More /\ editColorName(PaletteIds, {-1, 0, 12}, {NameSales})
  \/ More /\ editColorHex(PaletteIds, {-1, 0, 3, 6, 11, 12}, {Red40, Yellow, Bare, Junk},
                          {"undefined", "dark"})
  \/ More /\ reorderColors(PaletteIds, {Number(-1), Number(0), Number(11), Number(12), NaN,
                                        UndefinedIndex})
  \/ More /\ regeneratePalette(PaletteIds)

Spec == Init /\ [][Next]_vars

\* longer runs of the edits of the palettes with key colours
EditNext ==
  \/ MoreEdits /\ generatePalettes
  \/ MoreEdits /\ editColorName(KeyedIds, {12}, {NameSales})
  \/ MoreEdits /\ reorderColors(KeyedIds, {Number(0), Number(12)})
  \/ MoreEdits /\ editColorHex(KeyedIds, {0, 6, 11}, {Red40}, {"undefined"})

EditSpec == Init /\ [][EditNext]_vars

MaxDerived == 3

\* edits of the positions of the palettes with key colours, after reorders
DerivedNext ==
  \/ calls < MaxDerived /\ generatePalettes
  \/ calls < MaxDerived /\ reorderColors(KeyedIds, {Number(0), Number(3)})
  \/ calls < MaxDerived /\ editColorHex(KeyedIds, {0, 3}, {Red40}, {"undefined", "dark"})

DerivedSpec == Init /\ [][DerivedNext]_vars

\* runs of the calls that name things, and of regeneratePalette after them
NameNext ==
  \/ calls < MaxNames /\ generatePalettes
  \/ calls < MaxNames /\ editPaletteName(PaletteIds, {NameSales})
  \/ calls < MaxNames /\ editColorName(PaletteIds, {0}, {NameSales})
  \/ calls < MaxNames /\ updateTokenSettings({Text.defaultPrefix, PrefixBrand})
  \/ calls < MaxNames /\ regeneratePalette(PaletteIds)

NameSpec == Init /\ [][NameNext]_vars

\* the settings that regenerate: the changes of the user, each followed by the
\* effect of Home; '#FFFFF', typed into the text field of the header, is a
\* string chroma cannot parse
LiveNext ==
  \/ generatePalettes
  \/ calls < MaxChanges /\ setLightModeBaseColor({Hex(<< 245, 245, 245 >>), Junk})
  \/ calls < MaxChanges /\ setDarkModeBaseColor({Hex(Black)})
  \/ calls < MaxChanges /\ setStrictnessLevel({"AASmall"})
  \/ calls < MaxChanges /\ editPaletteName(PaletteIds, {NameSales})

\* a pending effect is run: the step of generatePalettes, by what it does to effects
EffectRuns == effects = "pending" /\ effects' \in {"idle", "failed"}

\* React runs a pending effect before it handles the next event: weak fairness
\* of generatePalettes, the one step that ends a pending effect
LiveSpec == Init /\ [][LiveNext]_vars /\ WF_effects(EffectRuns)

\* the functions of colorUtils called on their own: the arguments are drawn
\* first, then one of the functions is applied to them
UtilInit ==
  /\ state = initialState /\ op = NoCall /\ effects = "pending" /\ uuid = 0 /\ calls = 0
  /\ util \in [name       : {"arguments"},
                color      : {White, Black, << 105, 105, 105 >>, << 191, 64, 64 >>,
                              << 255, 235, 59 >>, << 13, 71, 161 >>, << 227, 242, 253 >>},
                background : {White, << 18, 18, 18 >>, << 119, 119, 119 >>, << 85, 85, 85 >>},
                target     : {3000, 4500, 7000},
                result     : {<< >>}]

CheckCompliance ==
  /\ util.name = "arguments"
  /\ util' = [util EXCEPT !.name = "checkWCAGCompliance",
                          !.result = checkWCAGCompliance(util.color, util.background)]
  /\ UNCHANGED << state, op, effects, uuid, calls >>

Optimize ==
  /\ util.name = "arguments"
  /\ util' = [util EXCEPT !.name = "optimizeColorForBackground",
                          !.result = optimizeColorForBackground(util.color, util.background,
                                                                util.target)]
  /\ UNCHANGED << state, op, effects, uuid, calls >>

UtilNext ==
  \/ CheckCompliance
  \/ Optimize

UtilSpec == UtilInit /\ [][UtilNext]_vars

-----------------------------------------------------------------------------
(* colorUtils.ts generateCategoricalPalette (the seed-list version), loop by loop *)

MaxShuffle == 1

\* the curated pool of design system colours
potentialColors ==
  << << 15, 98, 254 >>, << 218, 30, 40 >>, << 25, 128, 56 >>, << 138, 63, 252 >>,
     << 255, 131, 43 >>, << 0, 157, 154 >>, << 165, 110, 255 >>, << 255, 171, 0 >>,
     << 98, 0, 234 >>, << 0, 184, 212 >>, << 100, 221, 23 >>, << 48, 79, 254 >>,
     << 244, 67, 54 >>, << 33, 150, 243 >>, << 76, 175, 80 >>, << 255, 152, 0 >>,
     << 156, 39, 176 >>, << 0, 188, 212 >>, << 205, 220, 57 >>, << 121, 85, 72 >>,
     << 96, 125, 139 >>, << 233, 30, 99 >>, << 103, 58, 183 >>, << 141, 110, 99 >> >>

\* [...potentialColors].sort(() => Math.random() - 0.5): some order of the
\* pool; the orders tried here start the pool at every r-th fifth colour
Shuffled(r) ==
  [k \in 1..Len(potentialColors) |-> potentialColors[((k - 1 + 5 * r) % Len(potentialColors)) + 1]]

\* the base colour with hue, saturation and lightness moved by three draws
variedBaseColor(baseColor, r1, r2, r3) ==
  LET baseHsl == chromaHsl(baseColor)
  IN  chromaFromHsl((baseHsl[1] + (r1 * 3000) \div 10000) % 36000,
                    Min(10000, Max(5000, baseHsl[2] + (r2 * 3000) \div 10000 - 1500)),
                    Min(9000, Max(3000, baseHsl[3] + (r3 * 3000) \div 10000 - 1500)))

\* the inner for loop: the candidate is closer than MIN_DISTANCE to a selected colour
isTooSimilar(candidateColor, selectedColors) ==
  \E j \in 1..Len(selectedColors) :
     calculateColorDistanceBelow(candidateColor, selectedColors[j], MIN_PERCEPTUAL_DISTANCE)

\* the candidate of one pass of the fallback loop, from three draws
fallbackCandidate(r1, r2, r3) ==
  chromaFromHsl(((r1 * 360) \div 10000) * 100, 6000 + (r2 * 3000) \div 10000,
                4000 + (r3 * 2000) \div 10000)

\* the end of one pass of a loop: the candidate is pushed unless it is too similar
Tried(call, candidateColor) ==
  [call EXCEPT !.candidateColor = candidateColor,
               !.selectedColors = IF isTooSimilar(candidateColor, call.selectedColors)
                                  THEN call.selectedColors
                                  ELSE Append(call.selectedColors, candidateColor)]

\* colorUtils.ts createColorObject for a categorical palette
createColorObject(baseHue, saturation, lightness, index, lightModeBackground, darkModeBackground, targetContrast) ==
  MakeColor(Text.color \o NumberText(index + 1),
            << "c", "o", "l", "o", "r", "." >> \o NumberText(index), "undefined",
            optimizeColorForBackground(chromaFromHsl(baseHue, saturation, lightness),
                                       lightModeBackground.rgb, targetContrast),
            optimizeColorForBackground(chromaFromHsl(baseHue, saturation, lightness),
                                       darkModeBackground.rgb, targetContrast),
            lightModeBackground, darkModeBackground)

\* the colour object of finalColors[i]
finalColor(hsl, i, lightBackground, darkBackground, targetContrast) ==
  createColorObject(OrElse(hsl[1], 0), OrElse(hsl[2], 7000), OrElse(hsl[3], 5000), i,
                    lightBackground, darkBackground, targetContrast)

\* the call is entered: the pool is shuffled, its first colour and the varied
\* base colour are selected
SeedInit ==
  /\ state = initialState /\ op = NoCall /\ effects = "pending" /\ uuid = 0 /\ calls = 0
  /\ \E r \in 0..MaxShuffle, baseColor \in {<< 33, 150, 243 >>, << 121, 85, 72 >>},
        r1 \in {0, 9999}, r2 \in {5000}, r3 \in {5000} :
        util = [name           |-> "seeds",
                shuffledColors |-> Shuffled(r),
                selectedColors |-> << Shuffled(r)[1], variedBaseColor(baseColor, r1, r2, r3) >>,
                i              |-> 1,
                candidateColor |-> Black,
                result         |-> << >>]

\* one pass of the loop over the shuffled pool
SelectSeed ==
  /\ util.name = "seeds"
  /\ util.i < Len(util.shuffledColors) /\ Len(util.selectedColors) < 12
  /\ util' = [Tried(util, util.shuffledColors[util.i + 1]) EXCEPT !.i = util.i + 1]
  /\ UNCHANGED << state, op, effects, uuid, calls >>

\* the loop over the pool is left
LeaveSeeds ==
  /\ util.name = "seeds"
  /\ ~(util.i < Len(util.shuffledColors) /\ Len(util.selectedColors) < 12)
  /\ util' = [util EXCEPT !.name = "fallback"]
  /\ UNCHANGED << state, op, effects, uuid, calls >>

\* one pass of the while loop that fills the list with random colours
SynthesizeFallback(draws) ==
  /\ util.name = "fallback"
  /\ Len(util.selectedColors) < 12
  /\ \E r1 \in draws, r2 \in {0, 9999}, r3 \in {9999} :
        util' = Tried(util, fallbackCandidate(r1, r2, r3))
  /\ UNCHANGED << state, op, effects, uuid, calls >>

\* the list is trimmed to 12 and the colour objects are returned
ReturnColors ==
  /\ util.name = "fallback"
  /\ ~(Len(util.selectedColors) < 12)
  /\ util' = [util EXCEPT !.name = "return",
                          !.result = [k \in 1..Min(12, Len(util.selectedColors)) |->
                                        finalColor(chromaHsl(util.selectedColors[k]), k - 1,
                                                   Hex(White), Hex(<< 18, 18, 18 >>), 3000)]]
  /\ UNCHANGED << state, op, effects, uuid, calls >>

FallbackDraws == {625 * k : k \in 0..15}

SeedNext ==
  \/ SelectSeed
  \/ LeaveSeeds
  \/ SynthesizeFallback(FallbackDraws)
  \/ ReturnColors

\* the call runs on: each loop is left when its condition fails, and until the
\* call has returned there is always a next pass or step, which is taken
\* (weak fairness of SeedNext, written with its enabling condition)
SeedSpec ==
  /\ SeedInit /\ [][SeedNext]_vars
  /\ WF_vars(LeaveSeeds) /\ WF_vars(ReturnColors)
  /\ ([]<>(util.name = "return") \/ []<><<SeedNext>>_vars)

-----------------------------------------------------------------------------
(* colorUtils.ts generatePerceptuallyDistinctColors: optimizeOrder *)

MaxPool == 1
Infinity == 100000000

\* a hex string of the list with its L*a*b* triple
Measured(colors) == [k \in 1..Len(colors) |-> [hex |-> colors[k], lab |-> chromaLab(colors[k])]]

\* new Set(list): the strings of the list, each once, in the order of their
\* first occurrence
RECURSIVE NewSet(_)
NewSet(list) ==
  IF Len(list) = 0 THEN << >>
  ELSE IF \E j \in 1..(Len(list) - 1) : list[j].hex = list[Len(list)].hex
  THEN NewSet(SubSeq(list, 1, Len(list) - 1))
  ELSE Append(NewSet(SubSeq(list, 1, Len(list) - 1)), list[Len(list)])

\* chroma.distance(a, b, 'lab'), 1/100
labDistance(a, b) == Sqrt(DistanceSq(a.lab, b.lab))

\* the smallest distance of the candidate to the other remaining colours
minDistToOthers(candidate, remaining) ==
  IF \A j \in 1..Len(remaining) : remaining[j].hex = candidate.hex THEN Infinity
  ELSE LET j0 == CHOOSE j \in 1..Len(remaining) :
                   /\ remaining[j].hex # candidate.hex
                   /\ \A i \in 1..Len(remaining) :
                         remaining[i].hex # candidate.hex
                         => DistanceSq(candidate.lab, remaining[j].lab)
                              <= DistanceSq(candidate.lab, remaining[i].lab)
       IN  labDistance(candidate, remaining[j0])

\* distToLast * 0.7 + minDistToOthers * 0.3, ten times
combinedDistance(lastColor, candidate, remaining) ==
  7 * labDistance(lastColor, candidate) + 3 * minDistToOthers(candidate, remaining)

\* the position in remaining of furthestColor: the first candidate with the
\* largest combined distance
furthestColor(lastColor, remaining) ==
  LET combined == [j \in 1..Len(remaining) |->
                     combinedDistance(lastColor, remaining[j], remaining)]
  IN  CHOOSE j \in 1..Len(remaining) :
         /\ \A i \in 1..Len(remaining) : combined[i] <= combined[j]
         /\ \A i \in 1..(j - 1) : combined[i] < combined[j]

Without(list, j) == SubSeq(list, 1, j - 1) \o SubSeq(list, j + 1, Len(list))

\* the while loop of optimizeOrder
RECURSIVE OrderLoop(_, _)
OrderStep(result, remaining, j) == OrderLoop(Append(result, remaining[j]), Without(remaining, j))

OrderLoop(result, remaining) ==
  IF Len(remaining) = 0 THEN result
  ELSE OrderStep(result, remaining, furthestColor(result[Len(result)], remaining))

OrderOf(measured) ==
  OrderLoop(<< measured[1] >>, NewSet(SubSeq(measured, 2, Len(measured))))

HexesOf(measured) == [k \in 1..Len(measured) |-> measured[k].hex]

optimizeOrder(colors) == HexesOf(OrderOf(Measured(colors)))

\* the hexes of 12 centres: 12 colours of the pool, and the same with the
\* colour at i also at j
OrderInit ==
  /\ state = initialState /\ op = NoCall /\ effects = "pending" /\ uuid = 0 /\ calls = 0
  /\ \E r \in 0..MaxPool, i \in 1..12, j \in 1..12 :
        util = [name   |-> "arguments",
                colors |-> [SubSeq(potentialColors, 6 * r + 1, 6 * r + 12) EXCEPT
                              ![j] = potentialColors[6 * r + i]],
                result |-> << >>]

ApplyOptimizeOrder ==
  /\ util.name = "arguments"
  /\ util' = [util EXCEPT !.name = "optimizeOrder", !.result = optimizeOrder(util.colors)]
  /\ UNCHANGED << state, op, effects, uuid, calls >>

OrderNext ==
  \/ ApplyOptimizeOrder

OrderSpec == OrderInit /\ [][OrderNext]_vars

-----------------------------------------------------------------------------
(* colorUtils.ts generatePerceptuallyDistinctColors: the k-means loop *)

MaxRuns == 8
maxIterations == 50

\* the pool of candidates in L*a*b*: the hue by the golden angle, saturation
\* and lightness by two draws each
candidatePool(count, seed) ==
  [i \in 1..(count * 20) |->
     chromaLab(chromaFromHsl((((i - 1) * 137508) \div 10) % 36000,
                             7500 + (Draw(seed, 2 * i - 1) * 1500) \div 10000,
                             4500 + (Draw(seed, 2 * i) * 1500) \div 10000))]

\* the while loop that draws indices until count of them are in usedIndices
RECURSIVE usedIndices(_, _, _, _, _)
usedIndices(count, size, seed, k, used) ==
  IF Len(used) >= count THEN used
  ELSE IF \E j \in 1..Len(used) : used[j] = (Draw(seed, k) * size) \div 10000
  THEN usedIndices(count, size, seed, k + 1, used)
  ELSE usedIndices(count, size, seed, k + 1, Append(used, (Draw(seed, k) * size) \div 10000))

\* centers.forEach: the first centre at the smallest distance from the point
RECURSIVE nearestCenter(_, _, _, _)
nearestCenter(point, centers, i, nearest) ==
  IF i > Len(centers) THEN nearest
  ELSE IF DistanceSq(point, centers[i]) < DistanceSq(point, centers[nearest])
  THEN nearestCenter(point, centers, i + 1, i)
  ELSE nearestCenter(point, centers, i + 1, nearest)

\* for every candidate the centre whose cluster it is pushed to
assignment(points, centers) ==
  SubSeq([p \in 1..Len(points) |-> nearestCenter(points[p], centers, 2, 1)], 1, Len(points))

AddSums(a, b) == << a[1] + b[1], a[2] + b[2], a[3] + b[3], a[4] + b[4] >>

\* the sum of the points of cluster i and their number, among points lo..hi
RECURSIVE clusterSum(_, _, _, _, _)
clusterSum(points, nearest, i, lo, hi) ==
  IF lo > hi THEN << 0, 0, 0, 0 >>
  ELSE IF lo = hi
  THEN IF nearest[lo] = i
       THEN << points[lo][1], points[lo][2], points[lo][3], 1 >>
       ELSE << 0, 0, 0, 0 >>
  ELSE AddSums(clusterSum(points, nearest, i, lo, (lo + hi) \div 2),
               clusterSum(points, nearest, i, (lo + hi) \div 2 + 1, hi))

\* calculateCentroid, from the sum and the number of the points
calculateCentroid(sum) ==
  << RDiv(sum[1], sum[4]), RDiv(sum[2], sum[4]), RDiv(sum[3], sum[4]) >>

\* clusters.map: a cluster without points keeps its centre
newCenters(points, centers, nearest) ==
  SubSeq([i \in 1..Len(centers) |->
            IF \A p \in 1..Len(points) : nearest[p] # i THEN centers[i]
            ELSE calculateCentroid(clusterSum(points, nearest, i, 1, Len(points)))],
         1, Len(centers))

movedByOne(centers, moved) ==
  \E i \in 1..Len(centers) : DistanceSq(centers[i], moved[i]) > 100 * 100

\* a centre moved by more than 0.1
movedCenter(centers, moved) ==
  \E i \in 1..Len(centers) : DistanceSq(centers[i], moved[i]) > 10 * 10

\* one pass of the k-means loop, from the new centres
Recentered(call, moved) ==
  [call EXCEPT !.iterations = call.iterations + 1,
               !.changed = movedCenter(call.centers, moved),
               !.centers = moved]

\* the call has drawn its candidates and its first centres
ClusterInit ==
  /\ state = initialState /\ op = NoCall /\ effects = "pending" /\ uuid = 0 /\ calls = 0
  /\ \E count \in {3, 12}, seed \in 1..MaxRuns :
        util = [name       |-> "kmeans",
                count      |-> count,
                candidates |-> candidatePool(count, seed),
                used       |-> usedIndices(count, count * 20, seed, 40 * count + 1, << >>),
                centers    |-> [k \in 1..count |->
                                  candidatePool(count, seed)[
                                    usedIndices(count, count * 20, seed, 40 * count + 1,
                                                << >>)[k] + 1]],
                iterations |-> 0,
                changed    |-> TRUE,
                result     |-> << >>]

AssignAndRecompute ==
  /\ util.name = "kmeans"
  /\ util.changed /\ util.iterations < maxIterations
  /\ util' = Recentered(util, newCenters(util.candidates, util.centers,
                                         assignment(util.candidates, util.centers)))
  /\ UNCHANGED << state, op, effects, uuid, calls >>

\* the loop is left: the centres become hexes and are put in order
ReturnOrdered ==
  /\ util.name = "kmeans"
  /\ ~(util.changed /\ util.iterations < maxIterations)
  /\ util' = [util EXCEPT !.name = "return",
                          !.result = optimizeOrder(SubSeq([k \in 1..Len(util.centers) |->
                                                             chromaFromLab(util.centers[k])],
                                                          1, Len(util.centers)))]
  /\ UNCHANGED << state, op, effects, uuid, calls >>

ClusterNext ==
  \/ AssignAndRecompute
  \/ ReturnOrdered

ClusterSpec == ClusterInit /\ [][ClusterNext]_vars

-----------------------------------------------------------------------------
(* colorUtils.ts generateDistinctColors, pass by pass *)

MaxCount == 3

\* the call at the head of its for loop: lightColors holds the existing colours
DistinctInit ==
  /\ state = initialState /\ op = NoCall /\ effects = "pending" /\ uuid = 0 /\ calls = 0
  /\ \E count \in (1..MaxCount) \cup {PaletteSize}, seed \in 1..MaxSeed,
        existingColors \in {<< >>, << potentialColors[1] >>},
        targetContrast \in {3000, 4500} :
        util = [name            |-> "for",
                count           |-> count,
                lightBackground |-> Hex(White),
                darkBackground  |-> Hex(<< 18, 18, 18 >>),
                targetContrast  |-> targetContrast,
                existingColors  |-> existingColors,
                seed            |-> seed,
                i               |-> 0,
                hue             |-> (Draw(seed, 1) * 36000) \div 10000,
                k               |-> 2,
                attempts        |-> 0,
                isDistinct      |-> FALSE,
                candidate       |-> [light |-> << >>, dark |-> << >>],
                tried           |-> 0,
                pushed          |-> << >>,
                lightColors     |-> existingColors,
                darkColors      |-> << >>]

\* the candidate of the pass is kept; a similar one moves the hue on
Attempted(call, cand) ==
  IF isColorTooSimilar(cand.light, call.lightColors)
  THEN [call EXCEPT !.candidate = cand, !.k = call.k + 1, !.tried = call.tried + 1,
                    !.hue = (call.hue + 1000) % 36000,
                    !.attempts = call.attempts + 1]
  ELSE [call EXCEPT !.candidate = cand, !.k = call.k + 1, !.tried = call.tried + 1,
                    !.isDistinct = TRUE]

\* one pass of the while loop
AttemptCandidate ==
  /\ util.name = "for"
  /\ util.i < util.count
  /\ ~util.isDistinct /\ util.attempts < maxAttempts
  /\ util' = Attempted(util, DistinctCandidate(util.hue,
                                               7000 + (Draw(util.seed, util.k) * 3000) \div 10000,
                                               util.lightBackground, util.darkBackground,
                                               util.targetContrast))
  /\ UNCHANGED << state, op, effects, uuid, calls >>

\* the while loop is left: the colours are pushed and the for loop goes on
PushColors ==
  /\ util.name = "for"
  /\ util.i < util.count
  /\ ~(~util.isDistinct /\ util.attempts < maxAttempts)
  /\ util' = [util EXCEPT !.lightColors = Append(util.lightColors, util.candidate.light),
                          !.darkColors = Append(util.darkColors, util.candidate.dark),
                          !.pushed = Append(util.pushed, util.candidate),
                          !.hue = (util.hue + 36000 \div util.count) % 36000,
                          !.i = util.i + 1,
                          !.attempts = 0,
                          !.tried = 0,
                          !.isDistinct = FALSE]
  /\ UNCHANGED << state, op, effects, uuid, calls >>

ReturnDistinct ==
  /\ util.name = "for"
  /\ util.i >= util.count
  /\ util' = [util EXCEPT !.name = "return"]
  /\ UNCHANGED << state, op, effects, uuid, calls >>

DistinctNext ==
  \/ AttemptCandidate
  \/ PushColors
  \/ ReturnDistinct

DistinctSpec == DistinctInit /\ [][DistinctNext]_vars

-----------------------------------------------------------------------------
(* colorUtils.ts generateDivergingPalette *)

divergingPaletteOptions ==
  << [startColor |-> << 138, 63, 252 >>, midColor |-> << 241, 241, 241 >>,
      endColor |-> << 218, 30, 40 >>],
     [startColor |-> << 21, 101, 192 >>, midColor |-> << 245, 245, 245 >>,
      endColor |-> << 230, 81, 0 >>],
     [startColor |-> << 46, 125, 50 >>, midColor |-> << 245, 245, 245 >>,
      endColor |-> << 106, 27, 154 >>],
     [startColor |-> << 0, 131, 143 >>, midColor |-> << 245, 245, 245 >>,
      endColor |-> << 78, 52, 46 >> ] >>

midDarkColor == << 85, 85, 85 >>

\* chroma(c).saturate(1.2): 18 * 1.2 more chroma in LCH
chromaSaturate(c) ==
  chromaFromLab(LchLab(<< LabLch(chromaLab(c))[1], LabLch(chromaLab(c))[2] + 2160,
                          LabLch(chromaLab(c))[3] >>))

\* the start and the end colour, the hue moved by 45 degrees when the colour
\* is too similar to the middle one
shiftedFrom(keyColor, midColor) ==
  IF CloserThan(keyColor, midColor, MIN_PERCEPTUAL_DISTANCE)
  THEN chromaFromHsl((chromaHsl(keyColor)[1] + 4500) % 36000, chromaHsl(keyColor)[2],
                     chromaHsl(keyColor)[3])
  ELSE keyColor

\* the dark variant of a key colour
darkOf(keyColor) ==
  chromaFromHsl(OrElse(chromaHsl(keyColor)[1], 0),
                Min(10000, OrElse(chromaHsl(keyColor)[2], 6000) + 1000),
                Min(8000, Max(4000, OrElse(chromaHsl(keyColor)[3], 5000) + 2000)))

\* chroma.scale([c0, c1]).mode('lab').colors(n)
ScaleLab(c0, c1, n) ==
  [k \in 1..n |-> IF k = 1 THEN c0
                  ELSE IF k = n THEN c1
                  ELSE InterpolateLab(c0, c1, k - 1, n - 1)]

\* the first half and the second half without its first colour
colorScale(startColor, midColor, endColor) ==
  ScaleLab(chromaSaturate(startColor), midColor, 6)
    \o Tail(ScaleLab(midColor, chromaSaturate(endColor), 7))

divergingSteps(lightColorScale, darkColorScale, lightBackground, darkBackground) ==
  [k \in 1..Len(lightColorScale) |->
     MakeColor(IF k - 1 = 0 THEN Text.first
               ELSE IF k - 1 = Len(lightColorScale) \div 2 THEN Text.middle
               ELSE IF k - 1 = Len(lightColorScale) - 1 THEN Text.last
               ELSE Text.auto \o NumberText(k - 1),
               Text.divergingStep \o NumberText(k),
               IF k - 1 = 0 \/ k - 1 = Len(lightColorScale) \div 2
                  \/ k - 1 = Len(lightColorScale) - 1
               THEN "true" ELSE "false",
               lightColorScale[k], darkColorScale[k], lightBackground, darkBackground)]

generateDivergingPalette(selectedPalette, lightBackground, darkBackground) ==
  divergingSteps(
    colorScale(shiftedFrom(selectedPalette.startColor, selectedPalette.midColor),
               selectedPalette.midColor,
               shiftedFrom(selectedPalette.endColor, selectedPalette.midColor)),
    colorScale(darkOf(shiftedFrom(selectedPalette.startColor, selectedPalette.midColor)),
               midDarkColor,
               darkOf(shiftedFrom(selectedPalette.endColor, selectedPalette.midColor))),
    lightBackground, darkBackground)

\* the backgrounds of the calls
DivergingBackgrounds ==
  {White, << 245, 245, 245 >>, << 250, 250, 250 >>, << 224, 224, 224 >>, << 255, 253, 231 >>,
   Black, << 18, 18, 18 >>, << 33, 33, 33 >>}

DivergingInit ==
  /\ state = initialState /\ op = NoCall /\ effects = "pending" /\ uuid = 0 /\ calls = 0
  /\ \E randomIndex \in 1..4, lightBackground \in DivergingBackgrounds,
        darkBackground \in DivergingBackgrounds :
        util = [name            |-> "arguments",
                selectedPalette |-> divergingPaletteOptions[randomIndex],
                lightBackground |-> Hex(lightBackground),
                darkBackground  |-> Hex(darkBackground),
                result          |-> << >>]

ApplyGenerateDivergingPalette ==
  /\ util.name = "arguments"
  /\ util' = [util EXCEPT !.name = "generateDivergingPalette",
                          !.result = generateDivergingPalette(util.selectedPalette,
                                                              util.lightBackground,
                                                              util.darkBackground)]
  /\ UNCHANGED << state, op, effects, uuid, calls >>

DivergingNext ==
  \/ ApplyGenerateDivergingPalette

DivergingSpec == DivergingInit /\ [][DivergingNext]_vars

-----------------------------------------------------------------------------
(* PaletteDisplay.tsx: the colour picker of a colour item and the move buttons *)

MaxMoves == 3

\* the colours the picker offers in the runs
Picked == {Red40, Hex(<< 0, 77, 64 >>), Hex(<< 255, 255, 255 >>)}

\* colorChangeTimeoutRef of the items: no timer is pending
NoTimer ==
  [name |-> "idle", paletteId |-> -1, index |-> 0, newColor |-> NoCall.hex,
   currentMode |-> "none", color |-> << >>]

PickerInit ==
  /\ state = initialState
  /\ op = NoCall
  /\ effects = "pending"
  /\ uuid = 0
  /\ calls = 0
  /\ util = NoTimer

\* isEditable of handleColorChange: by the index alone
editablePosition(palette, index) ==
  IF palette.type = "sequential"
  THEN index = 0 \/ index = Len(palette.colors) - 1
  ELSE IF palette.type = "diverging"
  THEN index = 0 \/ index = Len(palette.colors) \div 2 \/ index = Len(palette.colors) - 1
  ELSE TRUE

\* the hexes checkColorSimilarity compares the new colour with
otherColors(palette, index, currentMode) ==
  LET shown(k) == IF currentMode = "light" THEN palette.colors[k].light.hex.rgb
                  ELSE palette.colors[k].dark.hex.rgb
      others == IF palette.type = "categorical"
                THEN {k \in 1..Len(palette.colors) : k # index + 1}
                ELSE {k \in {1, Len(palette.colors) \div 2 + 1, Len(palette.colors)} :
                        /\ k # index + 1
                        /\ palette.type = "sequential" => k # Len(palette.colors) \div 2 + 1}
  IN  [j \in 1..Len(palette.colors) |-> IF j \in others THEN shown(j) ELSE << >>]

checkColorSimilarity(palette, index, newColor, currentMode) ==
  \E k \in 1..Len(palette.colors) :
     /\ otherColors(palette, index, currentMode)[k] # << >>
     /\ calculateColorDistanceBelow(newColor.rgb, otherColors(palette, index, currentMode)[k],
                                    MIN_PERCEPTUAL_DISTANCE)

\* handleColorChange of the item at index of palette: the change is applied
\* after 100 ms, and a timer of the item that is still pending is cleared
handleColorChange(indices) ==
  /\ effects = "idle"
  /\ calls < MaxMoves
  /\ \E k \in 1..Len(state.palettes), index \in indices, newColor \in Picked :
        /\ InRange(state.palettes[k].colors, index)
        /\ IsFull(state.palettes[k].colors[index + 1])
        /\ editablePosition(state.palettes[k], index)
        /\ util.name = "pending" => util.paletteId = state.palettes[k].id /\ util.index = index
        /\ IF checkColorSimilarity(state.palettes[k], index, newColor, state.currentMode)
           THEN util' = NoTimer
           ELSE util' = [name        |-> "pending",
                         paletteId   |-> state.palettes[k].id,
                         index       |-> index,
                         newColor    |-> newColor,
                         currentMode |-> state.currentMode,
                         color       |-> state.palettes[k].colors[index + 1].name]
  /\ UNCHANGED << state, op, effects, uuid, calls >>

\* handleMoveColor of a categorical palette, from the buttons of the item at
\* oldIndex; the timers of the items are left alone
handleMoveColor(indices) ==
  /\ effects = "idle"
  /\ calls < MaxMoves
  /\ \E k \in 1..Len(state.palettes), oldIndex \in indices, newIndex \in indices :
        /\ state.palettes[k].type = "categorical"
        /\ newIndex \in {oldIndex - 1, oldIndex + 1}
        /\ InRange(state.palettes[k].colors, oldIndex)
        /\ InRange(state.palettes[k].colors, newIndex)
        /\ state' = (IF ValidIndices(Number(oldIndex), Number(newIndex))
                     THEN reorderColorsUpdate(state, state.palettes[k].id, oldIndex, newIndex)
                     ELSE Kept(state)).state
        /\ op' = [NoCall EXCEPT !.name = "reorderColors", !.paletteId = state.palettes[k].id,
                                !.colorIndex = Number(oldIndex),
                                !.newIndex = Number(newIndex),
                                !.outcome = "updated"]
  /\ calls' = calls + 1
  /\ UNCHANGED << effects, uuid, util >>

\* the timer of handleColorChange fires: onEditColorHex(index, newColor, currentMode)
ApplyColorChange ==
  /\ effects = "idle"
  /\ util.name = "pending"
  /\ state' = editColorHexUpdate(state, util.paletteId, util.index, util.newColor,
                                 util.currentMode).state
  /\ op' = [NoCall EXCEPT !.name = "editColorHex", !.paletteId = util.paletteId,
                          !.colorIndex = Number(util.index), !.hex = util.newColor,
                          !.mode = util.currentMode, !.outcome = "updated"]
  /\ util' = NoTimer
  /\ calls' = calls + 1
  /\ UNCHANGED << effects, uuid >>

PickerNext ==
  \/ calls < MaxMoves /\ generatePalettes
  \/ handleColorChange({0, 1, 11})
  \/ handleMoveColor({0, 1, 2})
  \/ ApplyColorChange

PickerSpec == PickerInit /\ [][PickerNext]_vars

\* ---------------------------------------------------------------------------
\* The reset button of an item (PaletteDisplay.tsx, SortableItem).  util holds
\* originalColor and dataset.modifiedMode of the one item that is followed,
\* and the palette as it was when originalColor was saved.
\* ---------------------------------------------------------------------------
MaxResets == 4

NoOriginal ==
  [name |-> "clean", palette |-> 0, index |-> 0, originalColor |-> NoCall.hex,
   modifiedMode |-> "none", applied |-> FALSE, before |-> << >>]

ResetInit ==
  /\ state = initialState
  /\ op = NoCall
  /\ effects = "pending"
  /\ uuid = 0
  /\ calls = 0
  /\ util = NoOriginal

\* modeColor.hex of the item
modeColor(palette, index, currentMode) ==
  IF currentMode = "light" THEN palette.colors[index + 1].light.hex
  ELSE palette.colors[index + 1].dark.hex

\* originalColor is saved when none is saved yet
savedOriginal(k, index) ==
  IF util.name = "saved" THEN util
  ELSE [NoOriginal EXCEPT !.name = "saved", !.palette = k, !.index = index,
                          !.originalColor = modeColor(state.palettes[k], index,
                                                      state.currentMode),
                          !.before = state.palettes[k]]

\* handleColorChange of the item at index with its timer, which fires before
\* the next event: a colour too similar to the others is not applied
handleColorChangeDone(indices) ==
  /\ effects = "idle"
  /\ calls < MaxResets
  /\ \E k \in 1..Len(state.palettes), index \in indices, newColor \in Picked :
        /\ InRange(state.palettes[k].colors, index)
        /\ IsFull(state.palettes[k].colors[index + 1])
        /\ editablePosition(state.palettes[k], index)
        /\ util.name = "saved" => util.palette = k /\ util.index = index
        /\ IF checkColorSimilarity(state.palettes[k], index, newColor, state.currentMode)
           THEN /\ util' = [savedOriginal(k, index) EXCEPT
                              !.modifiedMode = IF util.name = "saved" THEN @
                                               ELSE state.currentMode]
                /\ UNCHANGED << state, op >>
           ELSE /\ util' = [savedOriginal(k, index) EXCEPT
                              !.modifiedMode = state.currentMode, !.applied = TRUE]
                /\ state' = editColorHexUpdate(state, state.palettes[k].id, index, newColor,
                                               state.currentMode).state
                /\ op' = [NoCall EXCEPT !.name = "editColorHex",
                                        !.paletteId = state.palettes[k].id,
                                        !.colorIndex = Number(index), !.hex = newColor,
                                        !.mode = state.currentMode, !.outcome = "updated"]
  /\ calls' = calls + 1
  /\ UNCHANGED << effects, uuid >>

\* onClick of the reset button: onEditColorHex(index, originalColor, editedMode)
resetColor ==
  /\ effects = "idle"
  /\ calls < MaxResets
  /\ util.name = "saved"
  /\ util.palette <= Len(state.palettes)
  /\ state' = editColorHexUpdate(state, state.palettes[util.palette].id, util.index,
                                 util.originalColor, util.modifiedMode).state
  /\ op' = [NoCall EXCEPT !.name = "editColorHex",
                          !.paletteId = state.palettes[util.palette].id,
                          !.colorIndex = Number(util.index), !.hex = util.originalColor,
                          !.mode = util.modifiedMode, !.outcome = "updated"]
  /\ util' = NoOriginal
  /\ calls' = calls + 1
  /\ UNCHANGED << effects, uuid >>

ResetNext ==
  \/ calls < MaxResets /\ generatePalettes
  \/ calls < MaxResets /\ toggleMode
  \/ handleColorChangeDone({0, 6, 11})
  \/ resetColor

ResetSpec == ResetInit /\ [][ResetNext]_vars

-----------------------------------------------------------------------------
(* The claims *)

\* the last call was an editColorHex on palette that did not throw
EditedLast(palette) ==
  op.name = "editColorHex" /\ op.outcome = "updated" /\ palette.id = op.paletteId

\* as EditedLast, for the call made by the step
EditedNext(palette) ==
  op'.name = "editColorHex" /\ op'.outcome = "updated" /\ palette.id = op'.paletteId

\* the colours strictly between the positions from and to hold, for both
\* modes, the steps of the scale between the colours at from and to, each with
\* the contrast ratio and the compliance flags of its hex
OnScale(colors, from, to) ==
  /\ to < Len(colors)
  /\ IsFull(colors[from + 1]) /\ IsFull(colors[to + 1])
  /\ \A i \in (from + 1)..(to - 1) :
        /\ colors[i + 1].light =
             Variant(Hex(ScaleLch(colors[from + 1].light.hex.rgb,
                                  colors[to + 1].light.hex.rgb, to - from + 1)[i - from + 1]),
                     state.lightModeBaseColor)
        /\ colors[i + 1].dark =
             Variant(Hex(ScaleLch(colors[from + 1].dark.hex.rgb,
                                  colors[to + 1].dark.hex.rgb, to - from + 1)[i - from + 1]),
                     state.darkModeBaseColor)

\* the variant of the colour at position i that the last edit derived
Counterpart(palette, i) ==
  IF (IF op.mode = "undefined" THEN state.currentMode ELSE op.mode) = "light"
  THEN [hex |-> palette.colors[i + 1].dark.hex, background |-> state.darkModeBaseColor]
  ELSE [hex |-> palette.colors[i + 1].light.hex, background |-> state.lightModeBaseColor]

\* C1: in every reachable state every palette holds exactly 12 Color entries,
\* each with both a light and a dark variant.
C1_TwelveColors ==
  \A k \in 1..Len(state.palettes) :
     /\ Len(state.palettes[k].colors) = 12
     /\ \A j \in 1..Len(state.palettes[k].colors) : IsFull(state.palettes[k].colors[j])

\* C2: in every reachable state a sequential palette has editable = true
\* exactly at the positions 0 and 11, a diverging palette exactly at the
\* positions 0, 6 and 11.
C2_EditableKeys ==
  \A k \in 1..Len(state.palettes) :
     \A j \in 1..Len(state.palettes[k].colors) :
        /\ state.palettes[k].type = "sequential" =>
             ((state.palettes[k].colors[j].editable = "true") <=> (j - 1 \in {0, 11}))
        /\ state.palettes[k].type = "diverging" =>
             ((state.palettes[k].colors[j].editable = "true") <=> (j - 1 \in {0, 6, 11}))

\* C3: an edit is one transition that includes the cascade.  No reachable
\* state shows a sequential or diverging palette whose key colour the last
\* call edited together with derived colours, contrast ratios or compliance
\* flags that are not those of its present key colours.
C3_EditWithCascade ==
  \A k \in 1..Len(state.palettes) :
     (/\ EditedLast(state.palettes[k])
      /\ state.palettes[k].type # "categorical"
      /\ isEditable(state.palettes[k], op.colorIndex.n))
     => /\ \A j \in 1..Len(state.palettes[k].colors) :
              /\ state.palettes[k].colors[j].light =
                   Variant(state.palettes[k].colors[j].light.hex, state.lightModeBaseColor)
              /\ state.palettes[k].colors[j].dark =
                   Variant(state.palettes[k].colors[j].dark.hex, state.darkModeBaseColor)
        /\ IF state.palettes[k].type = "sequential"
           THEN OnScale(state.palettes[k].colors, 0, Len(state.palettes[k].colors) - 1)
           ELSE /\ OnScale(state.palettes[k].colors, 0, Len(state.palettes[k].colors) \div 2)
                /\ OnScale(state.palettes[k].colors, Len(state.palettes[k].colors) \div 2,
                           Len(state.palettes[k].colors) - 1)

\* the middle key of a diverging palette was edited after other edits
C3_Witness ==
  \E k \in 1..Len(state.palettes) :
     /\ EditedLast(state.palettes[k])
     /\ state.palettes[k].type = "diverging"
     /\ op.colorIndex.n = 6
     /\ state.palettes[k].colors[7].light.hex = Red40
     /\ calls >= 3

\* C4: after editColorHex on the position 0 or 11 of a sequential palette the
\* positions 1..10 hold, for light and for dark, the steps of the 12-step
\* interpolation between the hexes now at the positions 0 and 11, each with
\* its contrast ratio and compliance flags.
C4_TwelveSteps ==
  \A k \in 1..Len(state.palettes) :
     (/\ EditedLast(state.palettes[k])
      /\ state.palettes[k].type = "sequential"
      /\ op.colorIndex.n \in {0, 11})
     => OnScale(state.palettes[k].colors, 0, 11)

\* C5: editColorHex on the position 6 of a diverging palette regenerates the
\* positions 1..5 and 7..10 and leaves the light and the dark variant (hex,
\* contrast ratio, compliance flags) of the positions 0 and 11 as they were.
C5_MiddleEdit ==
  [][\A k \in 1..Len(state.palettes) :
        /\ (/\ EditedLast(state.palettes[k])
            /\ state.palettes[k].type = "diverging"
            /\ op.colorIndex.n = 6)
           => /\ OnScale(state.palettes[k].colors, 0, 6)
              /\ OnScale(state.palettes[k].colors, 6, 11)
        /\ (/\ EditedNext(state.palettes[k])
            /\ state.palettes[k].type = "diverging"
            /\ op'.colorIndex.n = 6)
           => /\ state'.palettes[k].colors[1].light = state.palettes[k].colors[1].light
              /\ state'.palettes[k].colors[1].dark = state.palettes[k].colors[1].dark
              /\ state'.palettes[k].colors[12].light = state.palettes[k].colors[12].light
              /\ state'.palettes[k].colors[12].dark = state.palettes[k].colors[12].dark]_vars

\* the colours the last editColorHex was accepted on: any colour of a
\* categorical palette, the editable ones of the others
Accepted(palette) ==
  /\ EditedLast(palette)
  /\ palette.type = "categorical" \/ isEditable(palette, op.colorIndex.n)

\* C6: after an editColorHex accepted on an editable colour, the counterpart
\* stored for the other mode has a contrast against the background of its mode
\* of at least the target of the strictness level, whenever black or white
\* reach that target against that background.
C6_CounterpartContrast ==
  \A k \in 1..Len(state.palettes) :
     (/\ Accepted(state.palettes[k])
      /\ Max(chromaContrast(White, Counterpart(state.palettes[k], op.colorIndex.n)
                                     .background.rgb),
             chromaContrast(Black, Counterpart(state.palettes[k], op.colorIndex.n)
                                     .background.rgb))
           >= getTargetContrastForLevel(state.strictnessLevel))
     => chromaContrast(Counterpart(state.palettes[k], op.colorIndex.n).hex.rgb,
                       Counterpart(state.palettes[k], op.colorIndex.n).background.rgb)
          >= getTargetContrastForLevel(state.strictnessLevel)

\* C7: after an editColorHex accepted on an editable colour, the counterpart
\* stored for the other mode is at a LAB distance of at least 50 from the
\* source hex.
C7_CounterpartDistance ==
  \A k \in 1..Len(state.palettes) :
     Accepted(state.palettes[k])
     => ~CloserThan(op.hex.rgb, Counterpart(state.palettes[k], op.colorIndex.n).hex.rgb, 50)

\* the id names no palette, or an index is no number, is negative or is not
\* below the length of the palette
BadReorder(paletteId, oldIndex, newIndex) ==
  \/ \A k \in 1..Len(state.palettes) : state.palettes[k].id # paletteId
  \/ oldIndex.kind # "number" \/ newIndex.kind # "number"
  \/ oldIndex.n < 0 \/ newIndex.n < 0
  \/ \E k \in 1..Len(state.palettes) :
        /\ state.palettes[k].id = paletteId
        /\ \/ oldIndex.n >= Len(state.palettes[k].colors)
           \/ newIndex.n >= Len(state.palettes[k].colors)

\* C8: reorderColors with an unknown palette id, or with oldIndex or newIndex
\* negative, NaN, undefined or not below the length of the palette, leaves
\* the whole state as it was.
C8_RejectedReorder ==
  [][(op'.name = "reorderColors" /\ BadReorder(op'.paletteId, op'.colorIndex, op'.newIndex))
       => state' = state]_vars

\* reorderColors was called on a palette of the store with a newIndex equal
\* to its length
C8_Witness ==
  \E k \in 1..Len(state.palettes) :
     /\ op.name = "reorderColors"
     /\ op.paletteId = state.palettes[k].id
     /\ op.colorIndex = Number(0)
     /\ op.newIndex = Number(Len(state.palettes[k].colors))

\* C9: editColorHex and editColorName with a colorIndex the palette does not
\* have (negative, or 12 and more), or with an unknown palette id, leave every
\* palette as it was.
C9_RejectedEdit ==
  [][(/\ op'.name \in {"editColorHex", "editColorName"}
      /\ \/ \A k \in 1..Len(state.palettes) : state.palettes[k].id # op'.paletteId
         \/ op'.colorIndex.n < 0
         \/ op'.colorIndex.n >= 12)
       => state'.palettes = state.palettes]_vars

\* C10: editColorHex with a malformed hex string leaves the palettes as they
\* were, whatever the type of the palette and the index.
C10_MalformedHex ==
  [][(op'.name = "editColorHex" /\ op'.hex.form # "hex")
       => state'.palettes = state.palettes]_vars

\* C11: regeneratePalette(id) puts a newly generated palette of the same type,
\* with the same id and the same name, in the place of the palette with that
\* id; every other palette and the rest of the state are as they were; with an
\* id that no palette has the state is unchanged.
C11_RegenerateInPlace ==
  [][op'.name = "regeneratePalette"
       => /\ [state' EXCEPT !.palettes = state.palettes] = state
          /\ Len(state'.palettes) = Len(state.palettes)
          /\ \A k \in 1..Len(state.palettes) :
                IF state.palettes[k].id = op'.paletteId
                THEN /\ state'.palettes[k].id = state.palettes[k].id
                     /\ state'.palettes[k].name = state.palettes[k].name
                     /\ state'.palettes[k].type = state.palettes[k].type
                     /\ state'.palettes[k].lightModeBackground = state.lightModeBaseColor
                     /\ state'.palettes[k].darkModeBackground = state.darkModeBaseColor
                     /\ Len(state'.palettes[k].colors) = 12
                     /\ \A j \in 1..12 :
                           /\ IsFull(state'.palettes[k].colors[j])
                           /\ state'.palettes[k].colors[j].name # NameSales
                ELSE state'.palettes[k] = state.palettes[k]]_vars

\* a palette that was renamed and had a colour renamed has been regenerated:
\* it has its name, and its colours are new
C11_Witness ==
  \E k \in 1..Len(state.palettes) :
     /\ op.name = "regeneratePalette" /\ op.outcome = "updated"
     /\ state.palettes[k].id = op.paletteId
     /\ state.palettes[k].name = NameSales

\* C12: a reorderColors call on a sequential or a diverging palette does not
\* change the order of the colours of that palette.
C12_ReorderCategoricalOnly ==
  [][\A k \in 1..Len(state.palettes) :
        (/\ op'.name = "reorderColors"
         /\ state.palettes[k].id = op'.paletteId
         /\ state.palettes[k].type # "categorical")
        => state'.palettes[k].colors = state.palettes[k].colors]_vars

\* C13: editColorName on a colour the palette has sets the name of that colour
\* to the name given and its token to the slug of the name (lower case, each
\* run of white space replaced by one '-'; 'Sales  Map' gives 'sales-map'),
\* and changes nothing else in the colour, the palette or the state.
C13_RenameOnly ==
  [][\A k \in 1..Len(state.palettes) :
        (/\ op'.name = "editColorName"
         /\ state.palettes[k].id = op'.paletteId
         /\ op'.colorIndex.n >= 0
         /\ op'.colorIndex.n < Len(state.palettes[k].colors))
        => /\ state'.palettes[k].colors[op'.colorIndex.n + 1].name = op'.text
           /\ op'.text = NameSales
                => state'.palettes[k].colors[op'.colorIndex.n + 1].token
                     = << "s", "a", "l", "e", "s", "-", "m", "a", "p" >>
           /\ [state' EXCEPT
                 !.palettes[k].colors[op'.colorIndex.n + 1].name =
                    state.palettes[k].colors[op'.colorIndex.n + 1].name,
                 !.palettes[k].colors[op'.colorIndex.n + 1].token =
                    state.palettes[k].colors[op'.colorIndex.n + 1].token] = state]_vars

\* a colour whose token had the prefix of the token settings was renamed
C13_Witness ==
  \E k \in 1..Len(state.palettes) :
     /\ op.name = "editColorName"
     /\ state.palettes[k].id = op.paletteId
     /\ state.tokenSettings.prefix = PrefixBrand
     /\ state.palettes[k].colors[1].name = NameSales
     /\ state.palettes[k].colors[1].token = << "s", "a", "l", "e", "s", "-", "m", "a", "p" >>
     /\ state.palettes[k].colors[2].token # << "s", "a", "l", "e", "s", "-", "m", "a", "p" >>

\* C14: updateTokenSettings changes, besides the token settings, only the
\* token strings of the colours: every hex, contrast ratio, compliance flag
\* and editable flag, the order of the colours, and the rest of each palette
\* and of the state are as before; with the prefix the settings already have
\* the palettes are left as they are.
C14_TokensOnly ==
  [][op'.name = "updateTokenSettings"
       => /\ [state' EXCEPT !.palettes = state.palettes,
                            !.tokenSettings = state.tokenSettings] = state
          /\ Len(state'.palettes) = Len(state.palettes)
          /\ \A k \in 1..Len(state.palettes) :
                /\ [state'.palettes[k] EXCEPT !.colors = state.palettes[k].colors]
                     = state.palettes[k]
                /\ Len(state'.palettes[k].colors) = Len(state.palettes[k].colors)
                /\ \A j \in 1..Len(state.palettes[k].colors) :
                      [state'.palettes[k].colors[j] EXCEPT
                         !.token = state.palettes[k].colors[j].token]
                        = state.palettes[k].colors[j]
          /\ op'.text = state.tokenSettings.prefix
                => state'.palettes = state.palettes]_vars

\* the prefix was changed after a colour was renamed: the colour has its name
\* and a token with the prefix
C14_Witness ==
  \E k \in 1..Len(state.palettes) :
     /\ op.name = "updateTokenSettings"
     /\ state.tokenSettings.prefix = PrefixBrand
     /\ state.palettes[k].colors[1].name = NameSales
     /\ SubSeq(state.palettes[k].colors[1].token, 1, 5) = PrefixBrand

\* C15: for every foreground, background and level L the flag L of
\* checkWCAGCompliance is true exactly when the contrast ratio is at least
\* getTargetContrastForLevel(L), the targets being 3.0, 4.5, 4.5 and 7.0; so
\* the flags AASmall and AAALarge are equal, AAASmall implies AASmall and
\* AASmall implies AALarge.
C15_ComplianceFlags ==
  util.name = "checkWCAGCompliance"
  => /\ \A L \in {"AALarge", "AASmall", "AAALarge", "AAASmall"} :
           util.result[L] <=> (chromaContrast(util.color, util.background)
                                 >= getTargetContrastForLevel(L))
     /\ getTargetContrastForLevel("AALarge") = 3000
     /\ getTargetContrastForLevel("AASmall") = 4500
     /\ getTargetContrastForLevel("AAALarge") = 4500
     /\ getTargetContrastForLevel("AAASmall") = 7000
     /\ util.result.AASmall = util.result.AAALarge
     /\ util.result.AAASmall => util.result.AASmall
     /\ util.result.AASmall => util.result.AALarge

\* a pair with a contrast between 4.5 and 7 was classified
C15_Witness ==
  /\ util.name = "checkWCAGCompliance"
  /\ util.result.AAALarge /\ ~util.result.AAASmall

\* C16: the colour optimizeColorForBackground returns has a contrast of at
\* least the target against the background, or is the one of #000000 and
\* #FFFFFF with the higher contrast against it, and then neither of them
\* reaches the target; a base colour that meets the target is returned as it is.
C16_OptimizedOrExtreme ==
  util.name = "optimizeColorForBackground"
  => /\ \/ chromaContrast(util.result, util.background) >= util.target
        \/ /\ util.result = IF chromaContrast(Black, util.background)
                                  > chromaContrast(White, util.background)
                             THEN Black ELSE White
           /\ chromaContrast(Black, util.background) < util.target
           /\ chromaContrast(White, util.background) < util.target
     /\ chromaContrast(util.color, util.background) >= util.target
           => util.result = util.color

\* a target that no colour reaches against the background was asked for
C16_Witness ==
  /\ util.name = "optimizeColorForBackground"
  /\ chromaContrast(util.result, util.background) < util.target

\* the sweeps of optimizeColorForBackground on the arguments of the call find
\* no colour that meets the target
SweepsFail ==
  /\ chromaContrast(util.color, util.background) < util.target
  /\ \A s \in {Min(10000, Max(5000, OrElse(chromaHsl(util.color)[2], 6000))),
                7000, 8000, 9000, 10000} :
        \A k \in 0..10 :
           (chromaLab(util.background)[1] > 5000 \/ k < 10)
           => chromaContrast(chromaFromHsl(OrElse(chromaHsl(util.color)[1], 0), s,
                                           IF chromaLab(util.background)[1] > 5000
                                           THEN 5000 - 500 * k ELSE 5000 + 500 * k),
                             util.background) < util.target

\* C19: when the sweeps of optimizeColorForBackground find no colour, the
\* candidates are tried in this order and the first that meets the target is
\* returned: the base colour darkened by 3 (light background) or brightened
\* by 3 (dark background); #333333, for a light background only; then black
\* or white, whichever has the higher contrast against the background.
C19_FallbackLadder ==
  (util.name = "optimizeColorForBackground" /\ SweepsFail)
  => util.result =
       IF chromaContrast(chromaDarken(util.color,
                                      IF chromaLab(util.background)[1] > 5000 THEN 3 ELSE -3),
                         util.background) >= util.target
       THEN chromaDarken(util.color, IF chromaLab(util.background)[1] > 5000 THEN 3 ELSE -3)
       ELSE IF /\ chromaLab(util.background)[1] > 5000
               /\ chromaContrast(DarkGray, util.background) >= util.target
            THEN DarkGray
       ELSE IF chromaContrast(Black, util.background)
                 > chromaContrast(White, util.background)
            THEN Black
       ELSE White

\* the sweeps found nothing and the brightened base colour, which is not
\* white, met the target
C19_Witness ==
  /\ util.name = "optimizeColorForBackground" /\ SweepsFail
  /\ chromaContrast(util.result, util.background) >= util.target
  /\ util.result \notin {Black, White}

\* C17: a call of the seed-list generateCategoricalPalette always comes to its
\* end and returns exactly 12 colours, whatever the random draws are.
C17_SeedListTerminates == <>(util.name = "return" /\ Len(util.result) = 12)

\* the palettes were generated for the base colours of the store
ForCurrentBackgrounds ==
  \A k \in 1..Len(state.palettes) :
     /\ state.palettes[k].lightModeBackground = state.lightModeBaseColor
     /\ state.palettes[k].darkModeBackground = state.darkModeBaseColor

\* C18: after a change of a background or of the strictness level the palettes
\* are eventually replaced by newly generated ones, and in every settled state
\* every palette holds the base colours of the store as its backgrounds.
C18_RegeneratedOnChange ==
  /\ [](effects = "idle" => ForCurrentBackgrounds)
  /\ (effects = "pending" ~> (effects = "idle" /\ op.name = "generatePalettes"))

\* the mode the last edit derived a counterpart for
OtherMode ==
  IF (IF op.mode = "undefined" THEN state.currentMode ELSE op.mode) = "light" THEN "dark"
  ELSE "light"

\* the first step of the ladder: the source with its hue kept and its
\* saturation and lightness shifted for the other mode
HslShift(sourceHex, otherMode) ==
  IF otherMode = "dark"
  THEN chromaFromHsl(OrElse(chromaHsl(sourceHex.rgb)[1], 0),
                     Min(10000, OrElse(chromaHsl(sourceHex.rgb)[2], 5000) + 4000),
                     Max(1000, OrElse(chromaHsl(sourceHex.rgb)[3], 5000) - 4000))
  ELSE chromaFromHsl(OrElse(chromaHsl(sourceHex.rgb)[1], 0),
                     Max(500, OrElse(chromaHsl(sourceHex.rgb)[2], 5000) - 3000),
                     Min(9700, OrElse(chromaHsl(sourceHex.rgb)[3], 5000) + 4000))

\* C20: the steps of the counterpart derivation of editColorHex are applied in
\* order and the first that succeeds stands.  In particular the HSL shift of
\* the source is the stored counterpart whenever it is at the distance floor
\* (50, and 60 for a key colour of a sequential or diverging palette) from the
\* source and has the contrast of the strictness level against its background.
C20_ShiftKept ==
  \A k \in 1..Len(state.palettes) :
     (/\ Accepted(state.palettes[k])
      /\ ~CloserThan(op.hex.rgb, HslShift(op.hex, OtherMode),
                     IF state.palettes[k].type = "categorical" THEN MIN_COLOR_DISTANCE ELSE 60)
      /\ chromaContrast(HslShift(op.hex, OtherMode),
                        Counterpart(state.palettes[k], op.colorIndex.n).background.rgb)
           >= minContrastFor(state.strictnessLevel))
     => Counterpart(state.palettes[k], op.colorIndex.n).hex = Hex(HslShift(op.hex, OtherMode))

\* the number of times c is in list
Occurrences(c, list) == Cardinality({k \in 1..Len(list) : list[k] = c})

\* C21: optimizeOrder returns a permutation of the hexes of the centres that
\* starts with the first one: the same length and each hex as often as in the
\* input, also when two centres have the same hex.
C21_OrderIsPermutation ==
  util.name = "optimizeOrder"
  => /\ Len(util.result) = Len(util.colors)
     /\ util.result[1] = util.colors[1]
     /\ \A k \in 1..Len(util.colors) :
           Occurrences(util.colors[k], util.result) = Occurrences(util.colors[k], util.colors)

\* the clusters of the call's centres that receive no candidate
EmptyClusters(call) ==
  {i \in 1..Len(call.centers) :
     \A p \in 1..Len(call.candidates) :
        nearestCenter(call.candidates[p], call.centers, 2, 1) # i}

C23_DistinctPairs ==
  /\ util.tried <= maxAttempts
  /\ util.name = "return"
     => /\ Len(util.lightColors) = util.count
        /\ Len(util.darkColors) = util.count
        /\ \A k \in 1..util.count :
              /\ util.lightColors[k] = util.pushed[k].light
              /\ util.darkColors[k] = util.pushed[k].dark

\* C24: in the palette of generateDivergingPalette the editable colour named
\* 'Middle' is at index 6 and holds the colour the two halves share: the
\* middle colour of the chosen option in light mode, #555555 in dark mode.
C24_MiddleIsMidpoint ==
  util.name = "generateDivergingPalette"
  => /\ Len(util.result) = 12
     /\ \A k \in 1..Len(util.result) :
           util.result[k].name = Text.middle
           <=> /\ k - 1 = 6
               /\ util.result[k].editable = "true"
               /\ util.result[k].light.hex = Hex(util.selectedPalette.midColor)
               /\ util.result[k].dark.hex = Hex(midDarkColor)

\* the position is one of the key positions of the palette: the first and the
\* last, and the middle of a diverging palette
KeyPosition(palette, colorIndex) ==
  \/ colorIndex = 0
  \/ colorIndex = Len(palette.colors) - 1
  \/ palette.type = "diverging" /\ colorIndex = Len(palette.colors) \div 2

\* the step is an editColorHex call on a position of a sequential or diverging
\* palette that is not a key position
DerivedEdit ==
  /\ op'.name = "editColorHex"
  /\ \E k \in 1..Len(state.palettes) :
        /\ state.palettes[k].id = op'.paletteId
        /\ state.palettes[k].type # "categorical"
        /\ InRange(state.palettes[k].colors, op'.colorIndex.n)
        /\ ~KeyPosition(state.palettes[k], op'.colorIndex.n)

\* C25: an editColorHex call on a position of a sequential or diverging palette
\* that is not a key position leaves every palette as it was and schedules no
\* colorChanged notification.
C25_DerivedRejected ==
  [][DerivedEdit => state' = state /\ ~op'.scheduled]_vars

\* the variant holds the contrast ratio and the compliance flags of its hex
\* against background
Current(variant, background) ==
  /\ IsObject(variant) /\ HasHex(variant)
  /\ variant = Variant(variant.hex, background)

\* C26: in every state every colour of every palette holds, for each mode, the
\* contrast ratio and the compliance flags of the stored hex of that mode
\* against the background the palette stores for that mode.
C26_RatiosCurrent ==
  \A k \in 1..Len(state.palettes) :
     \A i \in 1..Len(state.palettes[k].colors) :
        /\ Current(state.palettes[k].colors[i].light, state.palettes[k].lightModeBackground)
        /\ Current(state.palettes[k].colors[i].dark, state.palettes[k].darkModeBackground)

\* the hex of the colour at position i in the mode the last edit was made in
EditedHex(palette, i) ==
  IF OtherMode = "dark" THEN palette.colors[i + 1].light.hex
  ELSE palette.colors[i + 1].dark.hex

\* the counterpart editColorHex derives from hex for the other mode, by the
\* branch of the palette type
DerivedFrom(type, hex, otherBgColor) ==
  IF type = "categorical"
  THEN categoricalComplementary(hex, otherBgColor, OtherMode,
                                minContrastFor(state.strictnessLevel))
  ELSE keyComplementary(hex, otherBgColor, OtherMode, minContrastFor(state.strictnessLevel))

\* C27: after an accepted editColorHex(palette, i, h, m) the colour at position
\* i holds h itself in mode m, and in the other mode the colour derived from h,
\* the other mode, the background of the other mode and the strictness level.
C27_EditedAsGiven ==
  \A k \in 1..Len(state.palettes) :
     (EditedLast(state.palettes[k]) /\ op.scheduled)
     => /\ EditedHex(state.palettes[k], op.colorIndex.n) = op.hex
        /\ Counterpart(state.palettes[k], op.colorIndex.n).hex
             = DerivedFrom(state.palettes[k].type, op.hex,
                           Counterpart(state.palettes[k], op.colorIndex.n).background)

\* the step is a reorderColors call on palette with two indices of its colours
ReorderOf(palette) ==
  /\ op'.name = "reorderColors"
  /\ op'.paletteId = palette.id
  /\ op'.colorIndex.kind = "number" /\ InRange(palette.colors, op'.colorIndex.n)
  /\ op'.newIndex.kind = "number" /\ InRange(palette.colors, op'.newIndex.n)

\* newColors holds the colour of position oldIndex of colors at position
\* newIndex, and the other colours in the order they had
MovedTo(colors, newColors, oldIndex, newIndex) ==
  /\ Len(newColors) = Len(colors)
  /\ newColors[newIndex + 1] = colors[oldIndex + 1]
  /\ Without(newColors, newIndex + 1) = Without(colors, oldIndex + 1)

\* C28: reorderColors(palette, i, j) with two indices of the palette puts the
\* colour of position i at position j and keeps the order of the others; every
\* Color record is carried over as it was, the other palettes are not touched,
\* and reorderColors(palette, j, i) after it gives the sequence back.
C28_ReorderPermutes ==
  [][\A k \in 1..Len(state.palettes) :
        IF ReorderOf(state.palettes[k])
        THEN /\ Len(state'.palettes) = Len(state.palettes)
             /\ MovedTo(state.palettes[k].colors, state'.palettes[k].colors,
                        op'.colorIndex.n, op'.newIndex.n)
             /\ reorderColorsUpdate(state', op'.paletteId, op'.newIndex.n,
                                    op'.colorIndex.n).state = state
        ELSE op'.name = "reorderColors" => state'.palettes[k] = state.palettes[k]]_vars

\* C29: when the timer of a colour picker fires, the colour at the index it
\* edits is the colour the picker was used on, also when reorderColors ran on
\* the palette while the timer was pending.
C29_TimerEditsPicked ==
  [][(util.name = "pending" /\ op'.name = "editColorHex")
     => \A k \in 1..Len(state.palettes) :
           state.palettes[k].id = util.paletteId
           => /\ state.palettes[k].colors[util.index + 1].name = util.color
              /\ \A j \in 1..Len(state.palettes[k].colors) :
                    (/\ state.palettes[k].colors[j].name # util.color
                     /\ state.palettes[k].type = "categorical")
                    => state'.palettes[k].colors[j] = state.palettes[k].colors[j]]_vars

\* the step is a reset of an item whose edit was applied to the palette that
\* is still in the store
ResetOfEdit ==
  /\ util.name = "saved"
  /\ util.applied
  /\ util'.name = "clean"
  /\ state.palettes[util.palette].id = util.before.id

\* the slots the reset has to bring back: the colour itself, and in a
\* sequential or diverging palette every colour
RestoredSlots ==
  {j \in 1..Len(util.before.colors) :
     util.before.type = "categorical" => j = util.index + 1}

\* C30: the reset of an edited colour brings back the light and the dark hex
\* the colour had before the edit, and in a sequential or diverging palette
\* the hexes of every colour.
C30_ResetRoundTrip ==
  [][ResetOfEdit
     => \A j \in RestoredSlots :
           /\ state'.palettes[util.palette].colors[j].light.hex
                = util.before.colors[j].light.hex
           /\ state'.palettes[util.palette].colors[j].dark.hex
                = util.before.colors[j].dark.hex]_vars


=============================================================================
